---- MODULE Spec2Model ----
(***************************************************************************)
(* Model of the valuation/scoring pipeline of whatsitworth                 *)
(* (src/services/analyzer.ts): calculateScores, estimateTraffic,           *)
(* calculateValuation and generateRecommendations.                         *)
(*                                                                         *)
(* Numbers.  The code computes in IEEE doubles; the model computes the     *)
(* same expressions in exact integer arithmetic on scaled values:          *)
(*   - category scores are kept in hundredths of a point,                  *)
(*   - ageYears is kept in tenths of a year (getWaybackHistory rounds it   *)
(*     to one decimal),                                                    *)
(*   - megaSiteMultiplier is kept in 1/400 (every factor the code          *)
(*     multiplies in is a multiple of 1/2, 1/5 or 1/10, one per signal),   *)
(*   - money inside calculateValuation is kept in 1/20000 of a dollar.     *)
(* Math.round(n/d) is Round(n, d): floor(n/d + 1/2).                       *)
(***************************************************************************)
EXTENDS Integers, Sequences, FiniteSets, TLC

VARIABLES
    facts,    \* the fact records of one analysis, from which the engines take
              \* their arguments (calculateValuation writes into one of them)
    result,   \* the return value of the engine applied, NoResult before
    pc        \* "start", then the name of the engine that has returned

vars == <<facts, result, pc>>

\* null and undefined where the code takes an object; an absent number
\* (rank: null) is 0 and an absent string (cdn: null) is "", which the code
\* tests by truthiness only.
NULL == [null |-> TRUE]
UNDEFINED == [undefined |-> TRUE]
NoResult == [pending |-> TRUE]

(***************************************************************************)
(* Arithmetic helpers                                                      *)
(***************************************************************************)
Min(a, b) == IF a < b THEN a ELSE b
Max(a, b) == IF a > b THEN a ELSE b

\* Math.round(n / d) for d > 0: the nearest integer, halves rounded up.
Round(n, d) == (2 * n + d) \div (2 * d)

\* Math.round(a * n / d) for a, n >= 0 and d > 0, without forming a * n.
MulDivRound(a, n, d) == (a \div d) * n + Round((a % d) * n, d)

BoolToInt(b) == IF b THEN 1 ELSE 0

(***************************************************************************)
(* Constant tables                                                         *)
(***************************************************************************)
TLD_VALUES ==
    ".com" :> [score |-> 100, baseValue |-> 2000] @@
    ".org" :> [score |-> 85, baseValue |-> 1200] @@
    ".net" :> [score |-> 80, baseValue |-> 1000] @@
    ".io" :> [score |-> 78, baseValue |-> 1500] @@
    ".co" :> [score |-> 72, baseValue |-> 800] @@
    ".ai" :> [score |-> 82, baseValue |-> 2500] @@
    ".app" :> [score |-> 70, baseValue |-> 600] @@
    ".dev" :> [score |-> 70, baseValue |-> 600] @@
    ".tech" :> [score |-> 60, baseValue |-> 400] @@
    ".me" :> [score |-> 55, baseValue |-> 300] @@
    ".info" :> [score |-> 40, baseValue |-> 150] @@
    ".biz" :> [score |-> 35, baseValue |-> 100] @@
    ".xyz" :> [score |-> 30, baseValue |-> 50]

\* TLD_VALUES[tld] || { score: 30, baseValue: 50 }
TldData(tld) ==
    IF tld \in DOMAIN TLD_VALUES THEN TLD_VALUES[tld]
    ELSE [score |-> 30, baseValue |-> 50]

KEYWORD_VALUES ==
    "finance" :> 5000 @@ "bank" :> 8000 @@ "loan" :> 6000 @@ "credit" :> 5000 @@
    "invest" :> 7000 @@ "money" :> 4000 @@ "pay" :> 3000 @@ "cash" :> 3000 @@
    "wealth" :> 4000 @@ "crypto" :> 5000 @@ "tech" :> 3000 @@ "software" :> 4000 @@
    "app" :> 2500 @@ "cloud" :> 4000 @@ "ai" :> 5000 @@ "data" :> 3500 @@
    "code" :> 2000 @@ "dev" :> 2000 @@ "digital" :> 2500 @@ "cyber" :> 3000 @@
    "shop" :> 3500 @@ "store" :> 3000 @@ "buy" :> 3000 @@ "sell" :> 2500 @@
    "market" :> 3000 @@ "deal" :> 2000 @@ "price" :> 2000 @@ "sale" :> 2000 @@
    "trade" :> 3000 @@ "auction" :> 2500 @@ "health" :> 4000 @@ "medical" :> 5000 @@
    "doctor" :> 4000 @@ "care" :> 3000 @@ "fitness" :> 2500 @@ "diet" :> 2000 @@
    "wellness" :> 2500 @@ "pharma" :> 5000 @@ "dental" :> 3000 @@ "therapy" :> 3000 @@
    "travel" :> 3500 @@ "hotel" :> 4000 @@ "flight" :> 3500 @@ "tour" :> 2500 @@
    "vacation" :> 3000 @@ "trip" :> 2000 @@ "booking" :> 3000 @@ "resort" :> 3500 @@
    "cruise" :> 3000 @@ "home" :> 3500 @@ "house" :> 3000 @@ "real" :> 2000 @@
    "estate" :> 4000 @@ "property" :> 3500 @@ "rent" :> 2500 @@ "apartment" :> 2500 @@
    "condo" :> 2000 @@ "land" :> 2500 @@ "law" :> 5000 @@ "legal" :> 4500 @@
    "attorney" :> 5000 @@ "lawyer" :> 5000 @@ "court" :> 3000 @@ "insurance" :> 6000 @@
    "insure" :> 4000 @@ "policy" :> 3000 @@ "coverage" :> 3000 @@ "learn" :> 2000 @@
    "edu" :> 2500 @@ "course" :> 2000 @@ "school" :> 2500 @@ "university" :> 3000 @@
    "training" :> 2000 @@ "tutor" :> 2000 @@ "academy" :> 2000 @@ "best" :> 2000 @@
    "top" :> 1500 @@ "pro" :> 1500 @@ "expert" :> 2000 @@ "premium" :> 2000 @@
    "online" :> 1500 @@ "free" :> 1500 @@ "fast" :> 1000 @@ "easy" :> 1000 @@
    "smart" :> 1500

\* INDUSTRY_CPMS, in tenths of a dollar per thousand visitors.
INDUSTRY_CPMS ==
    "finance" :> 150 @@ "insurance" :> 180 @@ "legal" :> 120 @@ "health" :> 80 @@
    "technology" :> 50 @@ "ecommerce" :> 40 @@ "travel" :> 60 @@ "education" :> 40 @@
    "entertainment" :> 20 @@ "news" :> 25 @@ "general" :> 30

(***************************************************************************)
(* Signal extractors: the records the engines take as arguments            *)
(***************************************************************************)
\* analyzeDomainComprehensive, from the features of the domain name and the
\* Wayback result (estimatedAgeYears in tenths of a year).
analyzeDomainComprehensive(tld, length, hasNumbers, hasHyphens, keywordsFound, wayback) ==
    [tld |-> tld,
     tldScore |-> TldData(tld).score,
     length |-> length,
     hasNumbers |-> hasNumbers,
     hasHyphens |-> hasHyphens,
     isKeywordRich |-> Cardinality(keywordsFound) > 0,
     keywordsFound |-> keywordsFound,
     ageYears |-> wayback.estimatedAgeYears,
     archiveSnapshots |-> wayback.totalSnapshots,
     hasSignificantHistory |->
        wayback.totalSnapshots > 50 \/ wayback.estimatedAgeYears > 50]

\* analyzeSecurityHeaders: the indicator flags and the score they add up to.
analyzeSecurityHeaders(hasHttps, hasContentSecurityPolicy, hasXFrameOptions, hasSecureForms, noMixedContent) ==
    [hasHttps |-> hasHttps,
     hasContentSecurityPolicy |-> hasContentSecurityPolicy,
     hasXFrameOptions |-> hasXFrameOptions,
     hasSecureForms |-> hasSecureForms,
     noMixedContent |-> noMixedContent,
     securityScore |->
        40 * BoolToInt(hasHttps) + 20 * BoolToInt(hasContentSecurityPolicy)
        + 15 * BoolToInt(hasXFrameOptions) + 10 * BoolToInt(hasSecureForms)
        + 15 * BoolToInt(noMixedContent)]

\* The content depth tier analyzeContentComprehensive derives from the word count.
ContentDepthScore(wordCount) ==
    IF wordCount >= 2000 THEN 100
    ELSE IF wordCount >= 1000 THEN 80
    ELSE IF wordCount >= 500 THEN 60
    ELSE IF wordCount >= 300 THEN 40
    ELSE IF wordCount >= 100 THEN 20
    ELSE 0

\* analyzeContentComprehensive, from the counts it extracts.
analyzeContentComprehensive(wordCount, readabilityScore, hasContactInfo, hasPrivacyPolicy, hasTerms, hasAboutPage, uniqueContentIndicators) ==
    [wordCount |-> wordCount,
     readabilityScore |-> readabilityScore,
     hasContactInfo |-> hasContactInfo,
     hasPrivacyPolicy |-> hasPrivacyPolicy,
     hasTerms |-> hasTerms,
     hasAboutPage |-> hasAboutPage,
     contentDepthScore |-> ContentDepthScore(wordCount),
     uniqueContentIndicators |-> uniqueContentIndicators]

\* analyzeSocialComprehensive, from the number of platforms linked.
analyzeSocialComprehensive(socialLinksCount, hasSocialProof) ==
    [socialLinksCount |-> socialLinksCount,
     hasSocialProof |-> hasSocialProof,
     socialScore |->
        IF hasSocialProof THEN Min(100, socialLinksCount * 14 + 20)
        ELSE socialLinksCount * 14]

\* analyzeMonetization, from the six channel flags.
analyzeMonetization(hasAds, hasAffiliate, hasEcommerce, hasSubscription, hasDonations, hasLeadGen) ==
    LET monetizationMethods ==
            (IF hasAds THEN <<"Advertising">> ELSE <<>>)
            \o (IF hasAffiliate THEN <<"Affiliate Marketing">> ELSE <<>>)
            \o (IF hasEcommerce THEN <<"E-commerce">> ELSE <<>>)
            \o (IF hasSubscription THEN <<"Subscription/SaaS">> ELSE <<>>)
            \o (IF hasDonations THEN <<"Donations">> ELSE <<>>)
            \o (IF hasLeadGen THEN <<"Lead Generation">> ELSE <<>>)
    IN  [hasAds |-> hasAds,
         hasAffiliate |-> hasAffiliate,
         hasEcommerce |-> hasEcommerce,
         hasSubscription |-> hasSubscription,
         hasDonations |-> hasDonations,
         hasLeadGen |-> hasLeadGen,
         monetizationMethods |-> monetizationMethods,
         revenueModel |->
            IF hasEcommerce THEN "ecommerce"
            ELSE IF hasSubscription THEN "saas"
            ELSE IF hasAds THEN "advertising"
            ELSE IF hasLeadGen THEN "lead-gen"
            ELSE IF Len(monetizationMethods) > 1 THEN "mixed"
            ELSE IF Len(monetizationMethods) = 0 /\ ~hasAds THEN "content"
            ELSE "unknown",
         estimatedMonthlyRevenue |-> [low |-> 0, mid |-> 0, high |-> 0]]

(***************************************************************************)
(* calculateScores (scores in hundredths of a point until they are         *)
(* returned)                                                               *)
(***************************************************************************)
\* DomainAgeBonus with the two bonuses exchanged.
DomainAgeBonusExchanged(ageYears) ==
    IF ageYears >= 50 THEN 5 ELSE IF ageYears >= 20 THEN 10 ELSE 0

\* The age bonus of the domain score: 10 from 5 years, 5 from 2 years.
DomainAgeBonus(ageYears) ==
    IF ageYears >= 50 THEN 10 ELSE IF ageYears >= 20 THEN 5 ELSE 0

DomainScore(domain) ==
    domain.tldScore * 30
    + 100 * (IF domain.length <= 6 THEN 25
             ELSE IF domain.length <= 10 THEN 20
             ELSE IF domain.length <= 15 THEN 10
             ELSE 0)
    + 100 * (IF ~domain.hasNumbers THEN 10 ELSE 0)
    + 100 * (IF ~domain.hasHyphens THEN 10 ELSE 0)
    + 100 * (IF domain.isKeywordRich THEN 15 ELSE 0)
    + 100 * DomainAgeBonus(domain.ageYears)

\* PerformanceScore keeping the "|| 50" fallback for a performanceScore of 0
\* instead of replacing it by the blend.
PerformanceScoreKeepingFallback(performance) ==
    IF performance = NULL \/ performance.performanceScore = 0 THEN 100 * 50
    ELSE 100 * Round(performance.performanceScore * 40
                     + performance.accessibilityScore * 20
                     + performance.seoScore * 25
                     + performance.bestPracticesScore * 15, 100)

\* performance?.performanceScore || 50, replaced by the rounded blend when
\* performance data is present.
PerformanceScore(performance) ==
    IF performance = NULL THEN 100 * 50
    ELSE 100 * Round(performance.performanceScore * 40
                     + performance.accessibilityScore * 20
                     + performance.seoScore * 25
                     + performance.bestPracticesScore * 15, 100)

TechnicalScore(technical) ==
    100 * (20 * BoolToInt(technical.hasHttps)
           + 10 * BoolToInt(technical.hasMetaDescription)
           + 10 * BoolToInt(technical.hasOpenGraph)
           + 5 * BoolToInt(technical.hasTwitterCard)
           + 5 * BoolToInt(technical.hasFavicon)
           + 10 * BoolToInt(technical.hasCanonical)
           + 10 * BoolToInt(technical.hasViewportMeta)
           + 5 * BoolToInt(technical.hasCharsetMeta)
           + 5 * BoolToInt(technical.hasLanguageAttr)
           + (IF technical.loadTime < 2000 THEN 20
              ELSE IF technical.loadTime < 4000 THEN 10
              ELSE 0))

SeoScore(seo) ==
    seo.titleScore * 20
    + seo.descriptionScore * 15
    + seo.headingStructureScore * 15
    + seo.imageOptimizationScore * 10
    + 100 * (15 * BoolToInt(seo.hasStructuredData)
             + 10 * BoolToInt(seo.hasSitemap)
             + 5 * BoolToInt(seo.hasRobotsTxt)
             + 10 * BoolToInt(seo.hasCanonical))

ContentScore(content) ==
    content.contentDepthScore * 40
    + content.readabilityScore * 20
    + 100 * (10 * BoolToInt(content.hasContactInfo)
             + 10 * BoolToInt(content.hasPrivacyPolicy)
             + 5 * BoolToInt(content.hasTerms)
             + 5 * BoolToInt(content.hasAboutPage)
             + content.uniqueContentIndicators * 5)

MonetizationScore(monetization) ==
    100 * Min(100, Len(monetization.monetizationMethods) * 15
                   + 20 * BoolToInt(monetization.hasEcommerce)
                   + 15 * BoolToInt(monetization.hasSubscription))

\* Math.round of the weighted sum of the eight accumulators as they stand when
\* the sum is taken (weights in hundredths).
OverallScore(domainScore, performanceScore, technicalScore, securityScore, seoScore, contentScore, socialScore, monetizationScore) ==
    Round(domainScore * 15 + performanceScore * 15 + technicalScore * 10
          + securityScore * 10 + seoScore * 20 + contentScore * 15
          + socialScore * 5 + monetizationScore * 10, 10000)

\* ReportedScore without Math.min(100, .): the accumulator rounded as it stands.
UnclampedScore(score) == Round(score, 100)

\* Math.round(Math.min(100, score)) of an accumulator in hundredths.
ReportedScore(score) == Round(Min(100 * 100, score), 100)

calculateScores(domain, performance, technical, dns, security, seo, content, social, monetization) ==
    LET domainScore == DomainScore(domain)
        performanceScore == PerformanceScore(performance)
        technicalScore == TechnicalScore(technical)
        securityScore == 100 * security.securityScore
        seoScore == SeoScore(seo)
        contentScore == ContentScore(content)
        socialScore == 100 * social.socialScore
        monetizationScore == MonetizationScore(monetization)
        overall == OverallScore(domainScore, performanceScore, technicalScore, securityScore, seoScore, contentScore, socialScore, monetizationScore)
    IN  [domain |-> ReportedScore(domainScore),
         performance |-> ReportedScore(performanceScore),
         technical |-> ReportedScore(technicalScore),
         security |-> ReportedScore(securityScore),
         seo |-> ReportedScore(seoScore),
         content |-> ReportedScore(contentScore),
         social |-> ReportedScore(socialScore),
         monetization |-> ReportedScore(monetizationScore),
         overall |-> ReportedScore(100 * overall)]

(***************************************************************************)
(* estimateTraffic                                                         *)
(***************************************************************************)
\* One evaluated signal: what the code adds to trafficScore, the factor
\* (num/den) it multiplies into megaSiteMultiplier, and the record it pushes.
\* A label names the bucket only: the rank or follower count the code
\* interpolates into it is left out.
\* Step pushing the size of the change rather than the signed change.
StepWeighingMagnitude(add, num, den, label, impact, weight) == <<[add |-> add, num |-> num, den |-> den, signal |-> [signal |-> label, impact |-> impact, weight |-> IF weight < 0 THEN 0 - weight ELSE weight]]>>

Step(add, num, den, label, impact, weight) == <<[add |-> add, num |-> num, den |-> den, signal |-> [signal |-> label, impact |-> impact, weight |-> weight]]>>

\* trancoRank?.isRanked && trancoRank.rank
HasRank(trancoRank) ==
    /\ trancoRank # UNDEFINED
    /\ trancoRank.isRanked
    /\ trancoRank.rank # 0

\* RankStep with "megaSiteMultiplier *= 100" missing from the top-100 bucket.
RankStepWithoutTop100Multiplier(trancoRank) ==
    IF ~HasRank(trancoRank) THEN <<>>
    ELSE IF trancoRank.rank <= 100 THEN Step(150, 1, 1, "Tranco Top 100", "positive", 150)
    ELSE IF trancoRank.rank <= 1000 THEN Step(120, 50, 1, "Tranco Top 1K", "positive", 120)
    ELSE IF trancoRank.rank <= 10000 THEN Step(100, 20, 1, "Tranco Top 10K", "positive", 100)
    ELSE IF trancoRank.rank <= 100000 THEN Step(80, 8, 1, "Tranco Top 100K", "positive", 80)
    ELSE Step(50, 3, 1, "Tranco Top 1M", "positive", 50)

RankStep(trancoRank) ==
    IF ~HasRank(trancoRank) THEN <<>>
    ELSE IF trancoRank.rank <= 100 THEN Step(150, 100, 1, "Tranco Top 100", "positive", 150)
    ELSE IF trancoRank.rank <= 1000 THEN Step(120, 50, 1, "Tranco Top 1K", "positive", 120)
    ELSE IF trancoRank.rank <= 10000 THEN Step(100, 20, 1, "Tranco Top 10K", "positive", 100)
    ELSE IF trancoRank.rank <= 100000 THEN Step(80, 8, 1, "Tranco Top 100K", "positive", 80)
    ELSE Step(50, 3, 1, "Tranco Top 1M", "positive", 50)

\* socialFollowers && socialFollowers.totalFollowers > 0
FollowerStep(socialFollowers) ==
    IF socialFollowers = UNDEFINED \/ socialFollowers = NULL THEN <<>>
    ELSE LET followers == socialFollowers.totalFollowers
         IN  IF ~(followers > 0) THEN <<>>
             ELSE IF followers >= 10000000 THEN Step(60, 5, 1, "10M+ social followers", "positive", 60)
             ELSE IF followers >= 1000000 THEN Step(45, 3, 1, "1M+ social followers", "positive", 45)
             ELSE IF followers >= 100000 THEN Step(30, 2, 1, "100K+ social followers", "positive", 30)
             ELSE IF followers >= 10000 THEN Step(20, 3, 2, "10K+ social followers", "positive", 20)
             ELSE IF followers >= 1000 THEN Step(10, 1, 1, "1K+ social followers", "positive", 10)
             ELSE <<>>

AgeStep(domain) ==
    IF domain.ageYears >= 150 THEN Step(40, 5, 2, "Legendary domain (15+ years)", "positive", 40)
    ELSE IF domain.ageYears >= 100 THEN Step(30, 3, 2, "Established domain (10+ years)", "positive", 30)
    ELSE IF domain.ageYears >= 50 THEN Step(18, 1, 1, "Mature domain (5-10 years)", "positive", 18)
    ELSE IF domain.ageYears >= 20 THEN Step(10, 1, 1, "Growing domain (2-5 years)", "positive", 10)
    ELSE <<>>

ArchiveStep(domain) ==
    IF domain.archiveSnapshots > 800 THEN Step(35, 3, 1, "Massive archive history (800+ snapshots)", "positive", 35)
    ELSE IF domain.archiveSnapshots > 500 THEN Step(25, 2, 1, "Heavy archive history (500+ snapshots)", "positive", 25)
    ELSE IF domain.archiveSnapshots > 200 THEN Step(18, 13, 10, "Strong archive history (200+ snapshots)", "positive", 18)
    ELSE IF domain.archiveSnapshots > 100 THEN Step(12, 1, 1, "Good archive history (100+ snapshots)", "positive", 12)
    ELSE IF domain.archiveSnapshots > 50 THEN Step(8, 1, 1, "Moderate archive history (50+ snapshots)", "positive", 8)
    ELSE <<>>

PageCountStep(seo) ==
    IF seo.estimatedPageCount > 1000 THEN Step(25, 3, 2, "Massive site (1000+ indexed pages)", "positive", 25)
    ELSE IF seo.estimatedPageCount > 100 THEN Step(18, 1, 1, "Large site (100+ indexed pages)", "positive", 18)
    ELSE IF seo.estimatedPageCount > 20 THEN Step(10, 1, 1, "Medium site (20+ pages)", "positive", 10)
    ELSE <<>>

\* The PageSpeed SEO score and the performance score bonus; "performance?.x &&"
\* is false for null performance and for a score of 0.
PageSpeedSteps(performance) ==
    IF performance = NULL THEN <<>>
    ELSE (IF performance.seoScore # 0 /\ performance.seoScore >= 90 THEN Step(18, 1, 1, "Excellent SEO score (90+)", "positive", 18)
          ELSE IF performance.seoScore # 0 /\ performance.seoScore >= 70 THEN Step(10, 1, 1, "Good SEO score (70+)", "positive", 10)
          ELSE <<>>)
         \o (IF performance.performanceScore # 0 /\ performance.performanceScore >= 80 THEN Step(12, 1, 1, "Excellent performance (80+)", "positive", 12)
             ELSE <<>>)

ContentStep(content) ==
    IF content.wordCount >= 5000 THEN Step(15, 1, 1, "Very rich content (5000+ words)", "positive", 15)
    ELSE IF content.wordCount >= 2000 THEN Step(10, 1, 1, "Rich content (2000+ words)", "positive", 10)
    ELSE IF content.wordCount >= 500 THEN Step(5, 1, 1, "Moderate content", "neutral", 5)
    ELSE <<>>

SocialStep(social) ==
    IF social.socialLinksCount >= 5 THEN Step(12, 1, 1, "Strong social presence (5+ platforms)", "positive", 12)
    ELSE IF social.socialLinksCount >= 3 THEN Step(6, 1, 1, "Moderate social presence", "neutral", 6)
    ELSE <<>>

TechnologySteps(technology) ==
    (IF technology.hasGoogleAnalytics \/ technology.hasGoogleTagManager THEN Step(10, 1, 1, "Uses analytics tracking", "positive", 10) ELSE <<>>)
    \o (IF technology.ecommerce # "" THEN Step(12, 1, 1, "E-commerce enabled", "positive", 12) ELSE <<>>)
    \o (IF technology.cdn # "" THEN Step(15, 6, 5, "Uses CDN infrastructure", "positive", 15) ELSE <<>>)

NegativeSteps(domain, seo) ==
    (IF domain.ageYears < 10 THEN Step(-15, 1, 1, "New domain (< 1 year)", "negative", -15) ELSE <<>>)
    \o (IF ~seo.hasStructuredData THEN Step(-5, 1, 1, "No structured data", "negative", -5) ELSE <<>>)

\* Every signal of estimateTraffic, in evaluation order.
TrafficSteps(domain, performance, seo, content, social, technology, trancoRank, socialFollowers) ==
    RankStep(trancoRank) \o FollowerStep(socialFollowers) \o AgeStep(domain)
    \o ArchiveStep(domain) \o PageCountStep(seo) \o PageSpeedSteps(performance)
    \o ContentStep(content) \o SocialStep(social) \o TechnologySteps(technology)
    \o NegativeSteps(domain, seo)

RECURSIVE TrafficScore(_)
TrafficScore(steps) ==
    IF steps = <<>> THEN 0 ELSE Head(steps).add + TrafficScore(Tail(steps))

\* megaSiteMultiplier in 1/400, starting from 1.
RECURSIVE MegaSiteMultiplier(_)
MegaSiteMultiplier(steps) ==
    IF steps = <<>> THEN 400
    ELSE (MegaSiteMultiplier(Tail(steps)) * Head(steps).num) \div Head(steps).den

TrafficSignals(steps) == [i \in 1..Len(steps) |-> steps[i].signal]

\* Math.pow(10, 8.5 - Math.log10(rank) * 0.9) to the nearest visitor, tabulated
\* at the ranks the model draws.
RankBaseTraffic ==
    1 :> 316227766 @@ 50 :> 9352484 @@ 100 :> 5011872 @@ 101 :> 4967190 @@
    1000 :> 630957 @@ 1001 :> 630390 @@ 10000 :> 79433 @@ 10001 :> 79426 @@
    100000 :> 10000 @@ 100001 :> 10000 @@ 1000000 :> 1259

\* 100 * Math.pow(10, (normalizedScore / 100) * 3.7) to the nearest visitor,
\* for normalizedScore = 0 .. 150 (entry normalizedScore + 1).
BaseVisitors ==
    <<100, 109, 119, 129, 141, 153, 167, 182, 198, 215,
      234, 255, 278, 303, 330, 359, 391, 426, 463, 505,
      550, 598, 652, 710, 773, 841, 916, 998, 1086, 1183,
      1288, 1403, 1528, 1663, 1811, 1972, 2148, 2339, 2547, 2773,
      3020, 3289, 3581, 3899, 4246, 4624, 5035, 5483, 5970, 6501,
      7079, 7709, 8395, 9141, 9954, 10839, 11803, 12853, 13996, 15241,
      16596, 18072, 19679, 21429, 23335, 25410, 27669, 30130, 32810, 35727,
      38905, 42364, 46132, 50234, 54702, 59566, 64863, 70632, 76913, 83753,
      91201, 99312, 108143, 117761, 128233, 139637, 152055, 165577, 180302, 196336,
      213796, 232809, 253513, 276058, 300608, 327341, 356451, 388150, 422669, 460257,
      501187, 545758, 594292, 647143, 704693, 767361, 835603, 909913, 990832, 1078947,
      1174898, 1279381, 1393157, 1517050, 1651962, 1798871, 1958845, 2133045, 2322737, 2529298,
      2754229, 2999163, 3265878, 3556313, 3872576, 4216965, 4591980, 5000345, 5445027, 5929253,
      6456542, 7030723, 7655966, 8336812, 9078205, 9885531, 10764652, 11721954, 12764388, 13899526,
      15135612, 16481624, 17947336, 19543395, 21281390, 23173946, 25234808, 27478942, 29922646, 32583670,
      35481339>>

\* QualityBoost as 1 + megaSiteMultiplier * 0.1, without taking 1 off the
\* multiplier.
QualityBoostOnWholeMultiplier(megaSiteMultiplier) == Min(2 * 4000, 4000 + megaSiteMultiplier)

\* qualityBoost = Math.min(2, 1 + (megaSiteMultiplier - 1) * 0.1), in 1/4000.
QualityBoost(megaSiteMultiplier) == Min(2 * 4000, 3600 + megaSiteMultiplier)

\* Math.round(baseTraffic * qualityBoost)
RankedVisitors(rank, megaSiteMultiplier) ==
    MulDivRound(RankBaseTraffic[rank], QualityBoost(megaSiteMultiplier), 4000)

\* cappedMultiplier = Math.min(10, megaSiteMultiplier), in 1/400.
CappedMultiplier(megaSiteMultiplier) == Min(10 * 400, megaSiteMultiplier)

\* Math.round(baseVisitors * cappedMultiplier) on the clamped score.
UnrankedVisitors(trafficScore, megaSiteMultiplier) ==
    LET normalizedScore == Max(0, Min(150, trafficScore))
    IN  MulDivRound(BaseVisitors[normalizedScore + 1], CappedMultiplier(megaSiteMultiplier), 400)

\* TrafficTier without the 'low' rung.
TrafficTierWithoutLow(estimatedMonthlyVisitors) ==
    IF estimatedMonthlyVisitors >= 1000000 THEN "very-high"
    ELSE IF estimatedMonthlyVisitors >= 100000 THEN "high"
    ELSE IF estimatedMonthlyVisitors >= 10000 THEN "medium"
    ELSE "very-low"

TrafficTier(estimatedMonthlyVisitors) ==
    IF estimatedMonthlyVisitors >= 10000000 THEN "very-high"
    ELSE IF estimatedMonthlyVisitors >= 1000000 THEN "very-high"
    ELSE IF estimatedMonthlyVisitors >= 100000 THEN "high"
    ELSE IF estimatedMonthlyVisitors >= 10000 THEN "medium"
    ELSE IF estimatedMonthlyVisitors >= 1000 THEN "low"
    ELSE "very-low"

\* ConfidenceCap without Math.min(95, .).
UncappedConfidence(confidence) == confidence

\* The cap of the confidence level.
ConfidenceCap(confidence) == Min(95, confidence)

\* ConfidenceLevel granting the rank increment to every rank record supplied,
\* ranked or not.
ConfidenceLevelForSuppliedRank(domain, performance, seo, trancoRank, socialFollowers) ==
    ConfidenceCap(
        35
        + (IF trancoRank # UNDEFINED THEN 30 ELSE 0)
        + (IF domain.hasSignificantHistory THEN 15 ELSE 0)
        + (IF domain.archiveSnapshots > 100 THEN 5 ELSE 0)
        + (IF performance # NULL THEN 10 ELSE 0)
        + (IF seo.estimatedPageCount > 0 THEN 5 ELSE 0)
        + (IF socialFollowers # UNDEFINED /\ socialFollowers # NULL /\ socialFollowers.totalFollowers > 1000 THEN 5 ELSE 0))

ConfidenceLevel(domain, performance, seo, trancoRank, socialFollowers) ==
    ConfidenceCap(
        35
        + (IF trancoRank # UNDEFINED /\ trancoRank.isRanked THEN 30 ELSE 0)
        + (IF domain.hasSignificantHistory THEN 15 ELSE 0)
        + (IF domain.archiveSnapshots > 100 THEN 5 ELSE 0)
        + (IF performance # NULL THEN 10 ELSE 0)
        + (IF seo.estimatedPageCount > 0 THEN 5 ELSE 0)
        + (IF socialFollowers # UNDEFINED /\ socialFollowers # NULL /\ socialFollowers.totalFollowers > 1000 THEN 5 ELSE 0))

BounceRate(trafficTier) ==
    IF trafficTier = "very-high" THEN 35
    ELSE IF trafficTier = "high" THEN 45
    ELSE IF trafficTier = "medium" THEN 50
    ELSE IF trafficTier = "low" THEN 60
    ELSE 55

estimateTraffic(domain, performance, seo, content, social, technology, trancoRank, socialFollowers) ==
    LET steps == TrafficSteps(domain, performance, seo, content, social, technology, trancoRank, socialFollowers)
        trafficScore == TrafficScore(steps)
        megaSiteMultiplier == MegaSiteMultiplier(steps)
        estimatedMonthlyVisitors ==
            IF HasRank(trancoRank) THEN RankedVisitors(trancoRank.rank, megaSiteMultiplier)
            ELSE UnrankedVisitors(trafficScore, megaSiteMultiplier)
        trafficTier == TrafficTier(estimatedMonthlyVisitors)
    IN  [estimatedMonthlyVisitors |-> estimatedMonthlyVisitors,
         trafficTier |-> trafficTier,
         confidenceLevel |-> ConfidenceLevel(domain, performance, seo, trancoRank, socialFollowers),
         trafficSignals |-> TrafficSignals(steps),
         estimatedPageviews |-> MulDivRound(estimatedMonthlyVisitors, 5, 2),
         estimatedBounceRate |-> BounceRate(trafficTier)]

(***************************************************************************)
(* calculateValuation.  A dollar amount is kept exactly as w + f/Unit      *)
(* dollars, 0 <= f < Unit, so that no product leaves the integers TLC      *)
(* computes with.                                                          *)
(***************************************************************************)
Unit == 10 * 200 * 100

\* n/d dollars, for d a divisor of Unit.
Money(n, d) == [w |-> n \div d, f |-> (n % d) * (Unit \div d)]

MoneyAdd(a, b) == [w |-> a.w + b.w + (a.f + b.f) \div Unit, f |-> (a.f + b.f) % Unit]

\* m * n/d, for d a divisor of Unit and a product that is a multiple of 1/Unit.
MoneyTimes(m, n, d) ==
    LET t == ((m.w * n) % d) * (Unit \div d) + (m.f * n) \div d
    IN  [w |-> (m.w * n) \div d + t \div Unit, f |-> t % Unit]

\* Math.round(m * n/d)
MoneyRoundTimes(m, n, d) ==
    (m.w \div d) * n + ((m.w % d) * n) \div d
    + Round((((m.w % d) * n) % d) * Unit + m.f * n, d * Unit)

\* Math.round(m)
MoneyRound(m) == MoneyRoundTimes(m, 1, 1)

\* LengthPremium halving the value from 13 characters on.
LengthPremiumHalvedFrom13(length) ==
    IF length <= 3 THEN 100
    ELSE IF length <= 5 THEN 50
    ELSE IF length <= 8 THEN 20
    ELSE IF length <= 12 THEN 12
    ELSE 5

\* The length premium, in tenths; lengths 13..15 get none.
LengthPremium(length) ==
    IF length <= 3 THEN 100
    ELSE IF length <= 5 THEN 50
    ELSE IF length <= 8 THEN 20
    ELSE IF length <= 12 THEN 12
    ELSE IF length > 15 THEN 5
    ELSE 10

\* KEYWORD_VALUES[keyword] || 500, summed over keywordsFound.
RECURSIVE KeywordValue(_)
KeywordValue(keywordsFound) ==
    IF keywordsFound = {} THEN 0
    ELSE LET keyword == CHOOSE k \in keywordsFound : TRUE
         IN  (IF keyword \in DOMAIN KEYWORD_VALUES THEN KEYWORD_VALUES[keyword] ELSE 500)
             + KeywordValue(keywordsFound \ {keyword})

DomainIntrinsicValue(domain) ==
    LET withKeywords == Money(TldData(domain.tld).baseValue * LengthPremium(domain.length) + 10 * KeywordValue(domain.keywordsFound), 10)
        aged == MoneyTimes(withKeywords, 200 + domain.ageYears, 200)
        noNumbers == IF domain.hasNumbers THEN MoneyTimes(aged, 7, 10) ELSE aged
    IN  IF domain.hasHyphens THEN MoneyTimes(noNumbers, 6, 10) ELSE noNumbers

\* INDUSTRY_CPMS[industry] || INDUSTRY_CPMS['general'], in tenths of a dollar.
Cpm(industry) ==
    IF industry \in DOMAIN INDUSTRY_CPMS THEN INDUSTRY_CPMS[industry]
    ELSE INDUSTRY_CPMS["general"]

\* (visitors / 1000) * cpm
AdRevenue(visitors, industry) == MoneyTimes(Money(visitors, 1000), Cpm(industry), 10)

TrafficValue(traffic, industry) ==
    MoneyTimes(MoneyTimes(AdRevenue(traffic.estimatedMonthlyVisitors, industry), 12, 1), 2, 1)

\* The guard of the revenue branch.
EstimatesRevenue(monetization) == monetization.revenueModel # "unknown"

\* MonthlyRevenue accumulating on top of the estimate already stored in the
\* monetization record instead of starting from 0.
MonthlyRevenueOnTopOfStored(traffic, monetization, industry) ==
    LET visitors == traffic.estimatedMonthlyVisitors
        stored == Money(monetization.estimatedMonthlyRevenue.mid, 1)
        ads == IF monetization.hasAds THEN AdRevenue(visitors, industry) ELSE Money(0, 1)
        ecommerce == IF monetization.hasEcommerce THEN Money(visitors, 1) ELSE Money(0, 1)
        affiliate == IF monetization.hasAffiliate THEN Money(visitors * 25, 1000) ELSE Money(0, 1)
        subscription == IF monetization.hasSubscription THEN Money(visitors * 20, 1000) ELSE Money(0, 1)
    IN  MoneyAdd(MoneyAdd(MoneyAdd(MoneyAdd(stored, ads), ecommerce), affiliate), subscription)

\* estimatedMonthlyRevenue as accumulated inside the revenue branch.
MonthlyRevenue(traffic, monetization, industry) ==
    LET visitors == traffic.estimatedMonthlyVisitors
        ads == IF monetization.hasAds THEN AdRevenue(visitors, industry) ELSE Money(0, 1)
        ecommerce == IF monetization.hasEcommerce THEN Money(visitors, 1) ELSE Money(0, 1)
        affiliate == IF monetization.hasAffiliate THEN Money(visitors * 25, 1000) ELSE Money(0, 1)
        subscription == IF monetization.hasSubscription THEN Money(visitors * 20, 1000) ELSE Money(0, 1)
    IN  MoneyAdd(MoneyAdd(MoneyAdd(ads, ecommerce), affiliate), subscription)

RevenueMultiple(traffic, monetization, industry) ==
    IF EstimatesRevenue(monetization) THEN MoneyTimes(MonthlyRevenue(traffic, monetization, industry), 30, 1)
    ELSE Money(0, 1)

\* UpdatedMonetization writing the estimate outside the revenue branch too.
UpdatedMonetizationOnEveryPath(traffic, monetization, industry) ==
    LET estimatedMonthlyRevenue == MonthlyRevenue(traffic, monetization, industry)
    IN  [monetization EXCEPT !.estimatedMonthlyRevenue =
            [low |-> MoneyRoundTimes(estimatedMonthlyRevenue, 1, 2),
             mid |-> MoneyRound(estimatedMonthlyRevenue),
             high |-> MoneyRoundTimes(estimatedMonthlyRevenue, 2, 1)]]

\* The monetization record after calculateValuation has run on it.
UpdatedMonetization(traffic, monetization, industry) ==
    IF EstimatesRevenue(monetization)
    THEN LET estimatedMonthlyRevenue == MonthlyRevenue(traffic, monetization, industry)
         IN  [monetization EXCEPT !.estimatedMonthlyRevenue =
                [low |-> MoneyRoundTimes(estimatedMonthlyRevenue, 1, 2),
                 mid |-> MoneyRound(estimatedMonthlyRevenue),
                 high |-> MoneyRoundTimes(estimatedMonthlyRevenue, 2, 1)]]
    ELSE monetization

\* RangeMin with the spread added instead of subtracted.
RangeMinAboveValue(estimatedValue, confidenceLevel) ==
    MulDivRound(estimatedValue, 1000 + (500 - 3 * confidenceLevel), 1000)

\* Math.round(estimatedValue * (1 - rangeSpread)) with
\* rangeSpread = 0.5 - (confidenceLevel / 100) * 0.3, in thousandths.
RangeMin(estimatedValue, confidenceLevel) ==
    MulDivRound(estimatedValue, 1000 - (500 - 3 * confidenceLevel), 1000)

\* RangeMax with the widest spread (0.5) whatever the confidence.
RangeMaxAtWidestSpread(estimatedValue, confidenceLevel) ==
    MulDivRound(estimatedValue, 1500, 1000)

\* Math.round(estimatedValue * (1 + rangeSpread))
RangeMax(estimatedValue, confidenceLevel) ==
    MulDivRound(estimatedValue, 1000 + (500 - 3 * confidenceLevel), 1000)

\* EstimatedValue with the quality multiplier taken as 1 + overall / 100.
EstimatedValueFromOne(baseValue, overall) == MoneyRoundTimes(baseValue, 100 + overall, 100)

\* Math.round(baseValue * qualityMultiplier), qualityMultiplier = 0.5 + overall / 100.
EstimatedValue(baseValue, overall) == MoneyRoundTimes(baseValue, 50 + overall, 100)

calculateValuation(domain, traffic, monetization, scores, industry) ==
    LET domainIntrinsicValue == DomainIntrinsicValue(domain)
        trafficValue == TrafficValue(traffic, industry)
        contentValue == Money(scores.content * 5000, 100)
        technicalValue == Money((scores.technical + scores.performance) * 3000, 200)
        brandValue == (scores.social * 2000) \div 100 + (IF domain.hasSignificantHistory THEN 2000 ELSE 0)
        revenueMultiple == RevenueMultiple(traffic, monetization, industry)
        baseValue == MoneyAdd(MoneyAdd(MoneyAdd(MoneyAdd(MoneyAdd(domainIntrinsicValue, trafficValue), contentValue), technicalValue), Money(brandValue, 1)), revenueMultiple)
        estimatedValue == EstimatedValue(baseValue, scores.overall)
    IN  [value |-> estimatedValue,
         range |-> [min |-> RangeMin(estimatedValue, traffic.confidenceLevel),
                    max |-> RangeMax(estimatedValue, traffic.confidenceLevel)],
         breakdown |-> [domainIntrinsicValue |-> MoneyRound(domainIntrinsicValue),
                        trafficValue |-> MoneyRound(trafficValue),
                        contentValue |-> MoneyRound(contentValue),
                        technicalValue |-> MoneyRound(technicalValue),
                        brandValue |-> brandValue,
                        revenueMultiple |-> MoneyRound(revenueMultiple)],
         confidence |-> traffic.confidenceLevel]

(***************************************************************************)
(* generateRecommendations                                                 *)
(***************************************************************************)
Rec(category, title, impact, effort, potentialValueIncrease) == <<[category |-> category, title |-> title, impact |-> impact, effort |-> effort, potentialValueIncrease |-> potentialValueIncrease]>>

\* The rules, in the order the code evaluates and pushes them.
FiredRecommendations(domain, performance, technical, security, seo, content, social, monetization) ==
    (IF ~technical.hasHttps THEN Rec("Security", "Enable HTTPS", "critical", "easy", 2000) ELSE <<>>)
    \o (IF performance # NULL /\ performance.performanceScore < 50 THEN Rec("Performance", "Improve page speed", "high", "medium", 3000) ELSE <<>>)
    \o (IF ~seo.hasStructuredData THEN Rec("SEO", "Add structured data", "high", "medium", 1500) ELSE <<>>)
    \o (IF seo.titleScore < 75 THEN Rec("SEO", "Optimize page title", "high", "easy", 1000) ELSE <<>>)
    \o (IF seo.descriptionScore < 75 THEN Rec("SEO", "Optimize meta description", "high", "easy", 800) ELSE <<>>)
    \o (IF ~seo.hasSitemap THEN Rec("SEO", "Create XML sitemap", "medium", "easy", 500) ELSE <<>>)
    \o (IF content.wordCount < 500 THEN Rec("Content", "Add more content", "medium", "hard", 1500) ELSE <<>>)
    \o (IF ~content.hasPrivacyPolicy THEN Rec("Trust", "Add privacy policy", "medium", "easy", 300) ELSE <<>>)
    \o (IF social.socialLinksCount < 3 THEN Rec("Social", "Expand social presence", "medium", "medium", 500) ELSE <<>>)
    \o (IF Len(monetization.monetizationMethods) = 0 THEN Rec("Monetization", "Add monetization", "medium", "medium", 2000) ELSE <<>>)
    \o (IF ~technical.hasOpenGraph THEN Rec("Social", "Add Open Graph tags", "low", "easy", 200) ELSE <<>>)
    \o (IF ~technical.hasFavicon THEN Rec("Branding", "Add favicon", "low", "easy", 100) ELSE <<>>)

impactOrder == [critical |-> 0, high |-> 1, medium |-> 2, low |-> 3]

\* CompareRecommendations without the impact comparison.
CompareByValueOnly(a, b) == b.potentialValueIncrease - a.potentialValueIncrease

\* The comparator handed to sort: negative when a goes before b.
CompareRecommendations(a, b) ==
    LET impactDiff == impactOrder[a.impact] - impactOrder[b.impact]
    IN  IF impactDiff # 0 THEN impactDiff
        ELSE b.potentialValueIncrease - a.potentialValueIncrease

\* r put into the sorted list s behind every element that does not come after it.
RECURSIVE InsertSorted(_, _)
InsertSorted(r, s) ==
    IF s = <<>> THEN <<r>>
    ELSE IF CompareRecommendations(r, Head(s)) < 0 THEN <<r>> \o s
    ELSE <<Head(s)>> \o InsertSorted(r, Tail(s))

\* Array.prototype.sort with the comparator: a stable sort.
RECURSIVE SortRecommendations(_)
SortRecommendations(recommendations) ==
    IF recommendations = <<>> THEN <<>>
    ELSE InsertSorted(recommendations[Len(recommendations)], SortRecommendations(SubSeq(recommendations, 1, Len(recommendations) - 1)))

\* TopRecommendations cutting one entry later: slice(0, 11).
TopElevenRecommendations(recommendations) ==
    SubSeq(recommendations, 1, Min(11, Len(recommendations)))

\* recommendations.slice(0, 10)
TopRecommendations(recommendations) ==
    SubSeq(recommendations, 1, Min(10, Len(recommendations)))

generateRecommendations(domain, performance, technical, security, seo, content, social, monetization) ==
    TopRecommendations(SortRecommendations(FiredRecommendations(domain, performance, technical, security, seo, content, social, monetization)))

(***************************************************************************)
(* The fact records the engines are applied to.  Three whole sites (poor,  *)
(* typical, rich) span the range; every specification varies one record   *)
(* of a site over the full set of its values (a slice) and adds the        *)
(* corners where each record is independently the poor or the rich one.    *)
(***************************************************************************)
MaxAgeTenths == 160

Wayback(estimatedAgeYears, totalSnapshots) == [estimatedAgeYears |-> estimatedAgeYears, totalSnapshots |-> totalSnapshots]

Technical(flag, loadTime) == [hasHttps |-> flag, hasMetaDescription |-> flag, hasOpenGraph |-> flag, hasTwitterCard |-> flag, hasFavicon |-> flag, hasCanonical |-> flag, hasViewportMeta |-> flag, hasCharsetMeta |-> flag, hasLanguageAttr |-> flag, loadTime |-> loadTime]

Seo(score, flag, estimatedPageCount) == [titleScore |-> score, descriptionScore |-> score, headingStructureScore |-> score, imageOptimizationScore |-> score, hasStructuredData |-> flag, hasSitemap |-> flag, hasRobotsTxt |-> flag, hasCanonical |-> flag, estimatedPageCount |-> estimatedPageCount]

PageSpeed(score) == [performanceScore |-> score, accessibilityScore |-> score, seoScore |-> score, bestPracticesScore |-> score]

Technology(hasGoogleAnalytics, hasGoogleTagManager, ecommerce, cdn) == [hasGoogleAnalytics |-> hasGoogleAnalytics, hasGoogleTagManager |-> hasGoogleTagManager, ecommerce |-> ecommerce, cdn |-> cdn]

\* What getTrancoRank returns: a rank, or the unranked sentinel.
Ranked(rank) == [isRanked |-> TRUE, rank |-> rank]
Unranked == [isRanked |-> FALSE, rank |-> 0]

\* What getTrancoRank returns when the first entry of data.ranks carries no
\* rank (undefined, null or 0): isRanked is set, the rank is falsy.
RankMissing == [isRanked |-> TRUE, rank |-> 0]

Followers(totalFollowers) == [totalFollowers |-> totalFollowers, platformsWithData |-> IF totalFollowers > 0 THEN 1 ELSE 0]

\* The fact records analyzeWebsite gathers for one site.
SiteFacts(domain, performance, technical, security, seo, content, social, monetization, technology, trancoRank, socialFollowers, industry) ==
    [domain |-> domain, performance |-> performance, technical |-> technical,
     dns |-> [infrastructureScore |-> 0], security |-> security, seo |-> seo,
     content |-> content, social |-> social, monetization |-> monetization,
     technology |-> technology, trancoRank |-> trancoRank,
     socialFollowers |-> socialFollowers, industry |-> industry]

PoorSite ==
    SiteFacts(
        analyzeDomainComprehensive(".zz", 16, TRUE, TRUE, {}, Wayback(0, 0)),
        PageSpeed(0), Technical(FALSE, 5000),
        analyzeSecurityHeaders(FALSE, FALSE, FALSE, FALSE, FALSE),
        Seo(0, FALSE, 0),
        analyzeContentComprehensive(0, 0, FALSE, FALSE, FALSE, FALSE, 0),
        analyzeSocialComprehensive(0, FALSE),
        analyzeMonetization(FALSE, FALSE, FALSE, FALSE, FALSE, FALSE),
        Technology(FALSE, FALSE, "", ""), Unranked, NULL, "entertainment")

TypicalSite ==
    SiteFacts(
        analyzeDomainComprehensive(".io", 8, FALSE, TRUE, {"shop"}, Wayback(37, 60)),
        NULL, Technical(TRUE, 2500),
        analyzeSecurityHeaders(TRUE, FALSE, FALSE, TRUE, TRUE),
        Seo(75, TRUE, 30),
        analyzeContentComprehensive(600, 55, TRUE, TRUE, FALSE, FALSE, 2),
        analyzeSocialComprehensive(3, FALSE),
        analyzeMonetization(TRUE, FALSE, FALSE, FALSE, FALSE, FALSE),
        Technology(TRUE, FALSE, "", ""), Unranked, Followers(12000), "general")

RichSite ==
    SiteFacts(
        analyzeDomainComprehensive(".com", 3, FALSE, FALSE, {"bank", "loan"}, Wayback(MaxAgeTenths, 801)),
        PageSpeed(100), Technical(TRUE, 0),
        analyzeSecurityHeaders(TRUE, TRUE, TRUE, TRUE, TRUE),
        Seo(100, TRUE, 1001),
        analyzeContentComprehensive(5000, 100, TRUE, TRUE, TRUE, TRUE, 6),
        analyzeSocialComprehensive(7, TRUE),
        analyzeMonetization(TRUE, TRUE, TRUE, TRUE, TRUE, TRUE),
        Technology(TRUE, TRUE, "Shopify", "Cloudflare"), Ranked(50), Followers(10000000), "insurance")

Sites == {PoorSite, TypicalSite, RichSite}

\* The values each record is varied over.
DomainNames(d) == {analyzeDomainComprehensive(tld, length, hasNumbers, hasHyphens, keywordsFound, Wayback(d.ageYears, d.archiveSnapshots)) : tld \in {".com", ".io", ".zz"}, length \in {3, 4, 5, 6, 8, 10, 12, 13, 15, 16}, hasNumbers \in BOOLEAN, hasHyphens \in BOOLEAN, keywordsFound \in {{}, {"shop"}, {"bank", "loan"}, {"unlisted"}}}

DomainHistories(d) == {analyzeDomainComprehensive(d.tld, d.length, d.hasNumbers, d.hasHyphens, d.keywordsFound, Wayback(estimatedAgeYears, totalSnapshots)) : estimatedAgeYears \in 0..MaxAgeTenths, totalSnapshots \in {0, 50, 51, 100, 101, 200, 201, 500, 501, 800, 801}}

Performances == {NULL} \cup [performanceScore : {0, 30, 49, 50, 79, 80, 100}, accessibilityScore : {0, 50, 100}, seoScore : {0, 69, 70, 89, 90, 100}, bestPracticesScore : {0, 50, 100}]

Technicals == [hasHttps : BOOLEAN, hasMetaDescription : BOOLEAN, hasOpenGraph : BOOLEAN, hasTwitterCard : BOOLEAN, hasFavicon : BOOLEAN, hasCanonical : BOOLEAN, hasViewportMeta : BOOLEAN, hasCharsetMeta : BOOLEAN, hasLanguageAttr : BOOLEAN, loadTime : {0, 1999, 2000, 3999, 4000}]

Securities == {analyzeSecurityHeaders(a, b, c, d, e) : a \in BOOLEAN, b \in BOOLEAN, c \in BOOLEAN, d \in BOOLEAN, e \in BOOLEAN}

SeoMarkups(s) == [titleScore : {0, 40, 50, 75, 100}, descriptionScore : {0, 40, 75, 100}, headingStructureScore : {0, 55, 100}, imageOptimizationScore : {0, 50, 100}, hasStructuredData : BOOLEAN, hasSitemap : BOOLEAN, hasRobotsTxt : BOOLEAN, hasCanonical : BOOLEAN, estimatedPageCount : {s.estimatedPageCount}]

SeoPageCounts(s) == {[s EXCEPT !.estimatedPageCount = n, !.hasStructuredData = b] : n \in {0, 1, 20, 21, 100, 101, 1000, 1001}, b \in BOOLEAN}

Contents == {analyzeContentComprehensive(wordCount, readabilityScore, hasContactInfo, hasPrivacyPolicy, hasTerms, hasAboutPage, uniqueContentIndicators) : wordCount \in {0, 99, 100, 299, 300, 499, 500, 999, 1000, 1999, 2000, 4999, 5000}, readabilityScore \in {0, 55, 100}, hasContactInfo \in BOOLEAN, hasPrivacyPolicy \in BOOLEAN, hasTerms \in BOOLEAN, hasAboutPage \in BOOLEAN, uniqueContentIndicators \in 0..6}

ContentLengths(c) == {analyzeContentComprehensive(wordCount, c.readabilityScore, c.hasContactInfo, c.hasPrivacyPolicy, c.hasTerms, c.hasAboutPage, c.uniqueContentIndicators) : wordCount \in {0, 499, 500, 1999, 2000, 4999, 5000}}

Socials == {analyzeSocialComprehensive(socialLinksCount, hasSocialProof) : socialLinksCount \in 0..7, hasSocialProof \in BOOLEAN}

Monetizations == {analyzeMonetization(hasAds, hasAffiliate, hasEcommerce, hasSubscription, hasDonations, hasLeadGen) : hasAds \in BOOLEAN, hasAffiliate \in BOOLEAN, hasEcommerce \in BOOLEAN, hasSubscription \in BOOLEAN, hasDonations \in BOOLEAN, hasLeadGen \in BOOLEAN}

Technologies == [hasGoogleAnalytics : BOOLEAN, hasGoogleTagManager : BOOLEAN, ecommerce : {"", "Shopify"}, cdn : {"", "Cloudflare"}]

TrancoRanks == {UNDEFINED, Unranked, RankMissing} \cup {Ranked(rank) : rank \in DOMAIN RankBaseTraffic}

SocialFollowers == {NULL, UNDEFINED} \cup {Followers(n) : n \in {0, 999, 1000, 1001, 9999, 10000, 99999, 100000, 999999, 1000000, 9999999, 10000000}}

(***************************************************************************)
(* calculateScores applied to the facts of a site                          *)
(***************************************************************************)
\* facts is the site f with one of the records calculateScores reads varied
\* over all of its values.
ScoresSlice(f) ==
    \/ \E v \in DomainNames(f.domain) \cup DomainHistories(f.domain) : facts = [f EXCEPT !.domain = v]
    \/ \E v \in Performances : facts = [f EXCEPT !.performance = v]
    \/ \E v \in Technicals : facts = [f EXCEPT !.technical = v]
    \/ \E v \in Securities : facts = [f EXCEPT !.security = v]
    \/ \E v \in SeoMarkups(f.seo) : facts = [f EXCEPT !.seo = v]
    \/ \E v \in Contents : facts = [f EXCEPT !.content = v]
    \/ \E v \in Socials : facts = [f EXCEPT !.social = v]
    \/ \E v \in Monetizations : facts = [f EXCEPT !.monetization = v]

\* facts takes each of the records calculateScores reads from any of the sites.
ScoresCorner ==
    \E d \in Sites, p \in Sites, t \in Sites, s \in Sites, e \in Sites, c \in Sites, o \in Sites, m \in Sites :
        facts = SiteFacts(d.domain, p.performance, t.technical, s.security, e.seo, c.content, o.social, m.monetization, TypicalSite.technology, TypicalSite.trancoRank, TypicalSite.socialFollowers, TypicalSite.industry)

InitScores ==
    /\ (\E f \in Sites : ScoresSlice(f)) \/ ScoresCorner
    /\ result = NoResult
    /\ pc = "start"

CalculateScores ==
    /\ pc = "start"
    /\ result' = calculateScores(facts.domain, facts.performance, facts.technical, facts.dns, facts.security, facts.seo, facts.content, facts.social, facts.monetization)
    /\ pc' = "calculateScores"
    /\ UNCHANGED facts

SpecScores == InitScores /\ [][CalculateScores]_vars

\* C1: every field of the ScoreBreakdown calculateScores returns (domain,
\* performance, technical, security, seo, content, social, monetization,
\* overall) is an integer in [0,100], for sub-scores in 0..100,
\* uniqueContentIndicators in 0..6, any flags, performance present or null.
ScoresWithinRange ==
    pc = "calculateScores" =>
        \A field \in DOMAIN result : result[field] \in 0..100

\* C1 witness: calculateScores has returned for a site whose content
\* accumulator exceeds 100 (120), with performance data absent.
ScoresWithinRangeWitness ==
    /\ pc = "calculateScores"
    /\ facts.performance = NULL
    /\ ContentScore(facts.content) = 120 * 100
    /\ result.content = 100

\* C12: with performance data absent calculateScores returns and reports
\* performance = 50; with performance data present it reports the rounded
\* blend 0.4 performanceScore + 0.2 accessibilityScore + 0.25 seoScore
\* + 0.15 bestPracticesScore, also for a performanceScore of 0.
PerformanceDefaultOrBlend ==
    pc = "calculateScores" =>
        IF facts.performance = NULL THEN result.performance = 50
        ELSE 100 * result.performance > 40 * facts.performance.performanceScore + 20 * facts.performance.accessibilityScore + 25 * facts.performance.seoScore + 15 * facts.performance.bestPracticesScore - 50
             /\ 100 * result.performance <= 40 * facts.performance.performanceScore + 20 * facts.performance.accessibilityScore + 25 * facts.performance.seoScore + 15 * facts.performance.bestPracticesScore + 50

\* C12 witness: calculateScores has returned for performance data whose
\* performanceScore is 0 and whose blend is not 50.
PerformanceDefaultOrBlendWitness ==
    /\ pc = "calculateScores"
    /\ facts.performance # NULL
    /\ facts.performance.performanceScore = 0
    /\ facts.performance.accessibilityScore = 100
    /\ result.performance = 20 + Round(25 * facts.performance.seoScore + 15 * facts.performance.bestPracticesScore, 100)
    /\ result.performance # 50

\* The clamp the claim reads into the overall score: a category accumulator
\* (hundredths) held to [0,100].
ClampedScore(score) == Max(0, Min(100 * 100, score))

\* C7 as stated: overall is the rounded, clamped weighted combination of the
\* eight category scores, each taken clamped to [0,100].
OverallFromClampedCategories ==
    pc = "calculateScores" =>
        result.overall =
            Max(0, Min(100, OverallScore(ClampedScore(DomainScore(facts.domain)), ClampedScore(PerformanceScore(facts.performance)), ClampedScore(TechnicalScore(facts.technical)), ClampedScore(100 * facts.security.securityScore), ClampedScore(SeoScore(facts.seo)), ClampedScore(ContentScore(facts.content)), ClampedScore(100 * facts.social.socialScore), ClampedScore(MonetizationScore(facts.monetization)))))

(***************************************************************************)
(* estimateTraffic applied to the facts of a site                          *)
(***************************************************************************)
\* facts is the site f with the rank r and one of the records estimateTraffic
\* reads varied over all of its values.
TrafficSlice(f, r) ==
    \/ \E v \in DomainHistories(f.domain) : facts = [f EXCEPT !.trancoRank = r, !.domain = v]
    \/ \E v \in Performances : facts = [f EXCEPT !.trancoRank = r, !.performance = v]
    \/ \E v \in SeoPageCounts(f.seo) : facts = [f EXCEPT !.trancoRank = r, !.seo = v]
    \/ \E v \in ContentLengths(f.content) : facts = [f EXCEPT !.trancoRank = r, !.content = v]
    \/ \E v \in Socials : facts = [f EXCEPT !.trancoRank = r, !.social = v]
    \/ \E v \in Technologies : facts = [f EXCEPT !.trancoRank = r, !.technology = v]
    \/ \E v \in SocialFollowers : facts = [f EXCEPT !.trancoRank = r, !.socialFollowers = v]

\* facts has the rank r and takes each of the records estimateTraffic reads
\* from any of the sites.
TrafficCorner(r) ==
    \E d \in Sites, p \in Sites, e \in Sites, c \in Sites, o \in Sites, t \in Sites, s \in Sites :
        facts = SiteFacts(d.domain, p.performance, TypicalSite.technical, TypicalSite.security, e.seo, c.content, o.social, TypicalSite.monetization, t.technology, r, s.socialFollowers, TypicalSite.industry)

InitTraffic ==
    /\ \E r \in TrancoRanks : (\E f \in Sites : TrafficSlice(f, r)) \/ TrafficCorner(r)
    /\ result = NoResult
    /\ pc = "start"

EstimateTraffic ==
    /\ pc = "start"
    /\ result' = estimateTraffic(facts.domain, facts.performance, facts.seo, facts.content, facts.social, facts.technology, facts.trancoRank, facts.socialFollowers)
    /\ pc' = "estimateTraffic"
    /\ UNCHANGED facts

SpecTraffic == InitTraffic /\ [][EstimateTraffic]_vars

\* What estimateTraffic returns for the facts with the rank r in place of theirs.
TrafficWithRank(r) ==
    estimateTraffic(facts.domain, facts.performance, facts.seo, facts.content, facts.social, facts.technology, r, facts.socialFollowers)

\* C3 as stated: for facts ranked #50, the estimated monthly visitors are at
\* least 10 times those of the same facts without a rank, whatever the other
\* signals (followers, age, snapshots, page count, performance, content,
\* social, technology) are.
RankDominance ==
    (pc = "estimateTraffic" /\ facts.trancoRank = Ranked(50)) =>
        \A r \in {UNDEFINED, Unranked} :
            result.estimatedMonthlyVisitors \div 10 >= TrafficWithRank(r).estimatedMonthlyVisitors

\* C5: the confidenceLevel estimateTraffic returns is in [0,95], for every
\* combination of inputs.
ConfidenceWithinCap ==
    pc = "estimateTraffic" => result.confidenceLevel \in 0..95

\* C5 witness: estimateTraffic has returned for facts where every confidence
\* factor is present (they add up to 105) and the level returned is 95.
ConfidenceWithinCapWitness ==
    /\ pc = "estimateTraffic"
    /\ facts.trancoRank # UNDEFINED /\ facts.trancoRank.isRanked
    /\ facts.domain.hasSignificantHistory /\ facts.domain.archiveSnapshots > 100
    /\ facts.performance # NULL /\ facts.seo.estimatedPageCount > 0
    /\ facts.socialFollowers \notin {NULL, UNDEFINED} /\ facts.socialFollowers.totalFollowers > 1000
    /\ result.confidenceLevel = 95

\* C10: for a known rank of 50, estimateTraffic returns trafficTier
\* "very-high" and more than 10,000,000 estimatedMonthlyVisitors, whatever the
\* other inputs are.
Rank50IsVeryHigh ==
    (pc = "estimateTraffic" /\ facts.trancoRank = Ranked(50)) =>
        /\ result.trafficTier = "very-high"
        /\ result.estimatedMonthlyVisitors > 10000000

\* C10 witness: estimateTraffic has returned for the poorest facts ranked #50
\* (no followers, no history, no pages): the only signals are the rank and
\* the two negative ones.
Rank50IsVeryHighWitness ==
    /\ pc = "estimateTraffic"
    /\ facts.trancoRank = Ranked(50)
    /\ facts.socialFollowers = NULL /\ facts.domain.ageYears = 0
    /\ Len(result.trafficSignals) = 3
    /\ result.trafficTier = "very-high"

\* What estimateTraffic returns for the facts with the follower record s in
\* place of theirs.
TrafficWithFollowers(s) ==
    estimateTraffic(facts.domain, facts.performance, facts.seo, facts.content, facts.social, facts.technology, facts.trancoRank, s)

\* C16: estimateTraffic returns the same estimate for a rank argument never
\* supplied (undefined) and for the unranked sentinel of getTrancoRank, and
\* the same estimate for socialFollowers null and for a follower record with
\* totalFollowers = 0, whatever the other inputs are.
NoDataEquivalence ==
    pc = "estimateTraffic" =>
        /\ facts.trancoRank \in {UNDEFINED, Unranked} =>
                result = TrafficWithRank(UNDEFINED) /\ result = TrafficWithRank(Unranked)
        /\ facts.socialFollowers \in {NULL, Followers(0)} =>
                result = TrafficWithFollowers(NULL) /\ result = TrafficWithFollowers(Followers(0))

\* C16 witness: estimateTraffic has returned for facts carrying the unranked
\* sentinel and enough other signals for a confidence of 55, the level the
\* same facts get without a rank argument.
NoDataEquivalenceWitness ==
    /\ pc = "estimateTraffic"
    /\ facts.trancoRank = Unranked
    /\ facts.socialFollowers = Followers(0)
    /\ result.confidenceLevel = 55
    /\ TrafficWithRank(UNDEFINED).confidenceLevel = 55
    /\ TrafficWithFollowers(NULL).estimatedMonthlyVisitors = result.estimatedMonthlyVisitors

\* The signals estimateTraffic accumulates for the facts.
FactsSteps ==
    TrafficSteps(facts.domain, facts.performance, facts.seo, facts.content, facts.social, facts.technology, facts.trancoRank, facts.socialFollowers)

\* C17 as stated: without a known rank the visitors are the curve value of
\* the trafficScore clamped to [0,150] times min(10, megaSiteMultiplier),
\* rounded, where the curve gives about 100 visitors (50 to 200) at score 0
\* and about 500K visitors (250K to 1M) at score 150.
UnrankedCurve ==
    (pc = "estimateTraffic" /\ ~HasRank(facts.trancoRank)) =>
        LET normalizedScore == Max(0, Min(150, TrafficScore(FactsSteps)))
            cappedMultiplier == Min(10 * 400, MegaSiteMultiplier(FactsSteps))
        IN  /\ result.estimatedMonthlyVisitors = MulDivRound(BaseVisitors[normalizedScore + 1], cappedMultiplier, 400)
            /\ normalizedScore = 0 =>
                    /\ result.estimatedMonthlyVisitors >= Round(50 * cappedMultiplier, 400)
                    /\ result.estimatedMonthlyVisitors <= Round(200 * cappedMultiplier, 400)
            /\ normalizedScore = 150 =>
                    /\ result.estimatedMonthlyVisitors >= 625 * cappedMultiplier
                    /\ result.estimatedMonthlyVisitors <= 2500 * cappedMultiplier

ConfidenceFormula ==
    pc = "estimateTraffic" =>
        LET rankFormulaUsed == facts.trancoRank # UNDEFINED /\ facts.trancoRank.isRanked /\ facts.trancoRank.rank # 0
            followers == IF facts.socialFollowers \in {NULL, UNDEFINED} THEN 0 ELSE facts.socialFollowers.totalFollowers
        IN  /\ result.estimatedMonthlyVisitors =
                    IF rankFormulaUsed THEN RankedVisitors(facts.trancoRank.rank, MegaSiteMultiplier(FactsSteps))
                    ELSE UnrankedVisitors(TrafficScore(FactsSteps), MegaSiteMultiplier(FactsSteps))
            /\ result.confidenceLevel =
                    Min(95, 35 + 30 * BoolToInt(rankFormulaUsed)
                            + 15 * BoolToInt(facts.domain.hasSignificantHistory)
                            + 5 * BoolToInt(facts.domain.archiveSnapshots > 100)
                            + 10 * BoolToInt(facts.performance # NULL)
                            + 5 * BoolToInt(facts.seo.estimatedPageCount > 0)
                            + 5 * BoolToInt(followers > 1000))

(***************************************************************************)
(* calculateScores and estimateTraffic applied to facts of every age       *)
(***************************************************************************)
InitAge ==
    /\ \E f \in Sites : \E v \in DomainHistories(f.domain) : facts = [f EXCEPT !.domain = v]
    /\ result = NoResult
    /\ pc = "start"

SpecAge == InitAge /\ [][CalculateScores \/ EstimateTraffic]_vars

\* The domain record with only its ageYears changed.
DomainAged(ageYears) == [facts.domain EXCEPT !.ageYears = ageYears]

\* The trafficScore estimateTraffic has accumulated: every change to it is
\* pushed as the weight of a signal.
RECURSIVE SignalWeights(_)
SignalWeights(signals) ==
    IF signals = <<>> THEN 0 ELSE Head(signals).weight + SignalWeights(Tail(signals))

\* C4: with every other input held fixed, a larger domain.ageYears never gives
\* a smaller domain score from calculateScores nor a smaller trafficScore in
\* estimateTraffic.
AgeMonotone ==
    \A older \in facts.domain.ageYears..MaxAgeTenths :
        /\ pc = "calculateScores" =>
              calculateScores(DomainAged(older), facts.performance, facts.technical, facts.dns, facts.security, facts.seo, facts.content, facts.social, facts.monetization).domain >= result.domain
        /\ pc = "estimateTraffic" =>
              SignalWeights(estimateTraffic(DomainAged(older), facts.performance, facts.seo, facts.content, facts.social, facts.technology, facts.trancoRank, facts.socialFollowers).trafficSignals) >= SignalWeights(result.trafficSignals)

\* C4 witness: estimateTraffic has returned for a domain under one year old
\* (the negative signal applies) that is not the oldest drawn, so that older
\* ages across every tier are compared with it.
AgeMonotoneWitness ==
    /\ pc = "estimateTraffic"
    /\ facts.domain.ageYears = 9
    /\ \E i \in 1..Len(result.trafficSignals) : result.trafficSignals[i].weight = -15

\* C24: in every result of estimateTraffic the weights of trafficSignals add
\* up to the trafficScore accumulated before clamping, the i-th signal carries
\* the signed weight of the i-th change to the score, and a signal has impact
\* 'negative' exactly when its weight is negative.
SignalsAuditScore ==
    pc = "estimateTraffic" =>
        /\ SignalWeights(result.trafficSignals) = TrafficScore(FactsSteps)
        /\ Len(result.trafficSignals) = Len(FactsSteps)
        /\ \A i \in 1..Len(result.trafficSignals) :
              /\ result.trafficSignals[i].weight = FactsSteps[i].add
              /\ result.trafficSignals[i].weight # 0
              /\ result.trafficSignals[i].impact = "negative" <=> result.trafficSignals[i].weight < 0

\* C24 witness: estimateTraffic has returned signals of all three impacts,
\* the negative ones after the others, for a score that is not zero.
SignalsAuditScoreWitness ==
    /\ pc = "estimateTraffic"
    /\ \E i, j, k \in 1..Len(result.trafficSignals) :
          /\ i < j /\ j < k
          /\ result.trafficSignals[i].impact = "positive"
          /\ result.trafficSignals[j].impact = "neutral"
          /\ result.trafficSignals[k].impact = "negative"
    /\ SignalWeights(result.trafficSignals) > 0

\* The rungs of the tier ladder, lowest first.
TierRung(trafficTier) ==
    CASE trafficTier = "very-low" -> 0
      [] trafficTier = "low" -> 1
      [] trafficTier = "medium" -> 2
      [] trafficTier = "high" -> 3
      [] trafficTier = "very-high" -> 4

\* Visitor counts on both sides of every rung.
TierBoundaries == {0, 999, 1000, 9999, 10000, 99999, 100000, 999999, 1000000, 9999999, 10000000}

\* C25: trafficTier is decided by estimatedMonthlyVisitors alone: 'very-high'
\* from 1,000,000 (10,000,000 included), 'high' from 100,000, 'medium' from
\* 10,000, 'low' from 1,000, 'very-low' below; a smaller visitor count never
\* has a higher tier.
TierLadder ==
    pc = "estimateTraffic" =>
        /\ result.trafficTier =
              CASE result.estimatedMonthlyVisitors >= 1000000 -> "very-high"
                [] result.estimatedMonthlyVisitors \in 100000..999999 -> "high"
                [] result.estimatedMonthlyVisitors \in 10000..99999 -> "medium"
                [] result.estimatedMonthlyVisitors \in 1000..9999 -> "low"
                [] result.estimatedMonthlyVisitors < 1000 -> "very-low"
        /\ \A v \in TierBoundaries :
              /\ v <= result.estimatedMonthlyVisitors => TierRung(TrafficTier(v)) <= TierRung(result.trafficTier)
              /\ v >= result.estimatedMonthlyVisitors => TierRung(TrafficTier(v)) >= TierRung(result.trafficTier)

\* C25 witness: estimateTraffic has returned a visitor count on the 'low'
\* rung, with boundaries of lower and of higher rungs on either side.
TierLadderWitness ==
    /\ pc = "estimateTraffic"
    /\ result.estimatedMonthlyVisitors \in 1000..9999
    /\ result.trafficTier = "low"

(***************************************************************************)
(* calculateValuation applied to the facts of a site, its traffic estimate *)
(* and its scores                                                          *)
(***************************************************************************)
\* The facts with the traffic estimate and the scores analyzeWebsite computes
\* from them before it calls calculateValuation.
WithEstimates(f) ==
    [traffic |-> estimateTraffic(f.domain, f.performance, f.seo, f.content, f.social, f.technology, f.trancoRank, f.socialFollowers),
     scores |-> calculateScores(f.domain, f.performance, f.technical, f.dns, f.security, f.seo, f.content, f.social, f.monetization)]
    @@ f

Visitors == {0, 1, 19, 20, 999, 1000, 100000, 18704968}

Industries == DOMAIN INDUSTRY_CPMS \cup {"unlisted"}

\* facts is the site g with one of the arguments of calculateValuation varied:
\* the domain, the traffic and what is earned from it, or the scores.
ValuationSlice(g) ==
    \/ \E v \in DomainNames(g.domain) \cup DomainHistories(g.domain) : facts = [g EXCEPT !.domain = v]
    \/ \E v \in Visitors, m \in Monetizations, i \in Industries :
            facts = [g EXCEPT !.traffic.estimatedMonthlyVisitors = v, !.monetization = m, !.industry = i]
    \/ \E v \in Visitors, c \in {0, 35, 50, 95, 100} :
            facts = [g EXCEPT !.traffic.estimatedMonthlyVisitors = v, !.traffic.confidenceLevel = c]
    \/ \E c \in {0, 47, 100}, t \in {0, 47, 100}, p \in {0, 47, 100}, o \in {0, 47, 100}, a \in {0, 47, 100} :
            facts = [g EXCEPT !.scores.content = c, !.scores.technical = t, !.scores.performance = p, !.scores.social = o, !.scores.overall = a]

InitValuation ==
    /\ \E f \in Sites : ValuationSlice(WithEstimates(f))
    /\ result = NoResult
    /\ pc = "start"

\* calculateValuation returns the valuation and leaves the revenue estimate in
\* the monetization record it was handed.
CalculateValuation ==
    /\ pc = "start"
    /\ result' = calculateValuation(facts.domain, facts.traffic, facts.monetization, facts.scores, facts.industry)
    /\ facts' = [facts EXCEPT !.monetization = UpdatedMonetization(facts.traffic, facts.monetization, facts.industry)]
    /\ pc' = "calculateValuation"

SpecValuation == InitValuation /\ [][CalculateValuation]_vars

\* C2: for visitors >= 0, ageYears >= 0, scores in 0..100 and confidence in
\* 0..100, the value calculateValuation returns is >= 0 and lies between
\* range.min and range.max.
ValueWithinRange ==
    pc = "calculateValuation" =>
        /\ result.value >= 0
        /\ result.range.min <= result.value
        /\ result.value <= result.range.max

\* C2 witness: calculateValuation has returned a positive value at the
\* highest confidence drawn (the narrowest range), strictly inside its range.
ValueWithinRangeWitness ==
    /\ pc = "calculateValuation"
    /\ facts.traffic.confidenceLevel = 100
    /\ result.value > 0
    /\ result.range.min < result.value /\ result.value < result.range.max

\* C20: the domain intrinsic value is ((TLD base value, 50 for an unknown
\* TLD, x length multiplier) + sum of the keyword values) x (1 + 0.05 x
\* ageYears) x 0.7 if hasNumbers x 0.6 if hasHyphens (0.42 for both), with
\* the length multiplier 10 / 5 / 2 / 1.2 / 1 / 0.5 for lengths <= 3 / <= 5 /
\* <= 8 / <= 12 / 13..15 / > 15, non-increasing in the length; the breakdown
\* reports it rounded.
DomainIntrinsicValueFormula ==
    pc = "calculateValuation" =>
        LET domain == facts.domain
            baseValue == IF domain.tld \in DOMAIN TLD_VALUES THEN TLD_VALUES[domain.tld].baseValue ELSE 50
            lengthTenths == IF domain.length <= 3 THEN 100
                            ELSE IF domain.length <= 5 THEN 50
                            ELSE IF domain.length <= 8 THEN 20
                            ELSE IF domain.length <= 12 THEN 12
                            ELSE IF domain.length <= 15 THEN 10
                            ELSE 5
            penaltyHundredths == IF domain.hasNumbers /\ domain.hasHyphens THEN 42
                                 ELSE IF domain.hasNumbers THEN 70
                                 ELSE IF domain.hasHyphens THEN 60
                                 ELSE 100
        IN  /\ result.breakdown.domainIntrinsicValue =
                    MulDivRound((baseValue * lengthTenths + 10 * KeywordValue(domain.keywordsFound)) * (200 + domain.ageYears), penaltyHundredths, 10 * 200 * 100)
            /\ \A shorter \in 1..domain.length : LengthPremium(shorter) >= LengthPremium(domain.length)

\* C20 witness: calculateValuation has returned for a .com domain of length
\* 4 holding "shop", with digits and hyphens, 3.7 years old:
\* (2000 x 5 + 3500) x 1.185 x 0.42 = 6718.95, reported as 6719.
DomainIntrinsicValueFormulaWitness ==
    /\ pc = "calculateValuation"
    /\ facts.domain.tld = ".com" /\ facts.domain.length = 4
    /\ facts.domain.keywordsFound = {"shop"}
    /\ facts.domain.hasNumbers /\ facts.domain.hasHyphens
    /\ facts.domain.ageYears = 37
    /\ result.breakdown.domainIntrinsicValue = 6719

\* C21: the value calculateValuation returns is the sum of the six components
\* (domain intrinsic, traffic, content, technical, brand, revenue multiple)
\* times 0.5 + scores.overall / 100, rounded; the six components of the
\* breakdown are non-negative, and the value stays within rounding distance
\* of the same product taken on the rounded breakdown.
ValueIsWeightedSum ==
    pc = "calculateValuation" =>
        LET b == result.breakdown
            brandValue == Money(20 * facts.scores.social + (IF facts.domain.hasSignificantHistory THEN 2000 ELSE 0), 1)
            contentValue == Money(50 * facts.scores.content, 1)
            technicalValue == Money(15 * (facts.scores.technical + facts.scores.performance), 1)
            revenueMultiple == IF facts.monetization.revenueModel = "unknown" THEN Money(0, 1) ELSE MoneyTimes(MonthlyRevenue(facts.traffic, facts.monetization, facts.industry), 30, 1)
            sum == MoneyAdd(DomainIntrinsicValue(facts.domain), MoneyAdd(TrafficValue(facts.traffic, facts.industry), MoneyAdd(contentValue, MoneyAdd(technicalValue, MoneyAdd(brandValue, revenueMultiple)))))
            rounded == Money(b.domainIntrinsicValue + b.trafficValue + b.contentValue + b.technicalValue + b.brandValue + b.revenueMultiple, 1)
        IN  /\ result.value = MoneyRoundTimes(sum, 50 + facts.scores.overall, 100)
            /\ result.value - MoneyRoundTimes(rounded, 50 + facts.scores.overall, 100) \in -4..4
            /\ \A c \in DOMAIN b : b[c] >= 0

\* C21 witness: calculateValuation has returned a breakdown whose six
\* components are all positive, for an overall score other than 50, so that
\* the value differs from the plain sum.
ValueIsWeightedSumWitness ==
    /\ pc = "calculateValuation"
    /\ \A c \in DOMAIN result.breakdown : result.breakdown[c] > 0
    /\ facts.scores.overall > 50
    /\ result.value > result.breakdown.domainIntrinsicValue + result.breakdown.trafficValue + result.breakdown.contentValue + result.breakdown.technicalValue + result.breakdown.brandValue + result.breakdown.revenueMultiple + 4

\* C22: with spread = 0.5 - (confidence / 100) x 0.3, range.min is
\* round(value x (1 - spread)) and range.max is round(value x (1 + spread));
\* the spread lies in [0.2, 0.5], and for the value returned no higher
\* confidence gives a wider range (max - min).
RangeNarrowsWithConfidence ==
    pc = "calculateValuation" =>
        LET spreadThousandths == 500 - 3 * result.confidence
        IN  /\ spreadThousandths \in 200..500
            /\ result.range.min = MulDivRound(result.value, 1000 - spreadThousandths, 1000)
            /\ result.range.max = MulDivRound(result.value, 1000 + spreadThousandths, 1000)
            /\ \A higher \in result.confidence..100 :
                    RangeMax(result.value, higher) - RangeMin(result.value, higher) <= result.range.max - result.range.min

\* C22 witness: calculateValuation has returned a positive value at
\* confidence 95 with a range strictly narrower than the one the same value
\* gets at confidence 35.
RangeNarrowsWithConfidenceWitness ==
    /\ pc = "calculateValuation"
    /\ result.confidence = 95
    /\ result.value > 1000
    /\ result.range.max - result.range.min < RangeMax(result.value, 35) - RangeMin(result.value, 35)

\* C23: calculateValuation leaves the domain, traffic and scores records, the
\* industry and every monetization field but estimatedMonthlyRevenue as they
\* were; in the revenue branch it sets estimatedMonthlyRevenue to the monthly
\* revenue r rounded at half, once and twice (low <= mid <= high), and
\* outside that branch it leaves the monetization record untouched.
ValuationFrame ==
    [][pc = "start" =>
        LET before == facts.monetization
            after == facts'.monetization
            r == MonthlyRevenue(facts.traffic, before, facts.industry)
        IN  /\ \A field \in DOMAIN facts \ {"monetization"} : facts'[field] = facts[field]
            /\ DOMAIN after = DOMAIN before
            /\ \A field \in DOMAIN before \ {"estimatedMonthlyRevenue"} : after[field] = before[field]
            /\ IF before.revenueModel = "unknown" THEN after = before
               ELSE /\ after.estimatedMonthlyRevenue = [low |-> MoneyRoundTimes(r, 1, 2), mid |-> MoneyRoundTimes(r, 1, 1), high |-> MoneyRoundTimes(r, 2, 1)]
                    /\ after.estimatedMonthlyRevenue.low <= after.estimatedMonthlyRevenue.mid
                    /\ after.estimatedMonthlyRevenue.mid <= after.estimatedMonthlyRevenue.high]_vars

\* C23 witness: calculateValuation has returned after writing a revenue
\* estimate with low < mid < high into the monetization record.
ValuationFrameWitness ==
    /\ pc = "calculateValuation"
    /\ facts.monetization.revenueModel # "unknown"
    /\ facts.monetization.estimatedMonthlyRevenue.low > 0
    /\ facts.monetization.estimatedMonthlyRevenue.low < facts.monetization.estimatedMonthlyRevenue.mid
    /\ facts.monetization.estimatedMonthlyRevenue.mid < facts.monetization.estimatedMonthlyRevenue.high

\* C6 as stated: for every monetization record of analyzeMonetization and every
\* visitor count, estimatedMonthlyRevenue.mid is the rounded sum of the
\* contributions of the channels whose flag is true (ads, e-commerce,
\* affiliate, subscription) and revenueMultiple is 30 times that sum.
RevenueIsSumOfFlaggedChannels ==
    pc = "calculateValuation" =>
        LET sum == MonthlyRevenue(facts.traffic, facts.monetization, facts.industry)
        IN  /\ facts.monetization.estimatedMonthlyRevenue.mid = MoneyRound(sum)
            /\ result.breakdown.revenueMultiple = MoneyRound(MoneyTimes(sum, 30, 1))

(***************************************************************************)
(* generateRecommendations applied to the facts of a site                  *)
(***************************************************************************)
\* facts is the site f with one of the records the rules read varied over all
\* of its values.
RecommendationsSlice(f) ==
    \/ \E v \in Performances : facts = [f EXCEPT !.performance = v]
    \/ \E v \in Technicals : facts = [f EXCEPT !.technical = v]
    \/ \E v \in SeoMarkups(f.seo) : facts = [f EXCEPT !.seo = v]
    \/ \E v \in Contents : facts = [f EXCEPT !.content = v]
    \/ \E v \in Socials : facts = [f EXCEPT !.social = v]
    \/ \E v \in Monetizations : facts = [f EXCEPT !.monetization = v]

\* facts takes each of the records the rules read from any of the sites.
RecommendationsCorner ==
    \E p \in Sites, t \in Sites, e \in Sites, c \in Sites, o \in Sites, m \in Sites :
        facts = SiteFacts(TypicalSite.domain, p.performance, t.technical, TypicalSite.security, e.seo, c.content, o.social, m.monetization, TypicalSite.technology, TypicalSite.trancoRank, TypicalSite.socialFollowers, TypicalSite.industry)

InitRecommendations ==
    /\ (\E f \in Sites : RecommendationsSlice(f)) \/ RecommendationsCorner
    /\ result = NoResult
    /\ pc = "start"

GenerateRecommendations ==
    /\ pc = "start"
    /\ result' = generateRecommendations(facts.domain, facts.performance, facts.technical, facts.security, facts.seo, facts.content, facts.social, facts.monetization)
    /\ pc' = "generateRecommendations"
    /\ UNCHANGED facts

SpecRecommendations == InitRecommendations /\ [][GenerateRecommendations]_vars

\* The recommendations of the rules that fire on the facts, before sorting.
Fired == FiredRecommendations(facts.domain, facts.performance, facts.technical, facts.security, facts.seo, facts.content, facts.social, facts.monetization)

\* a is listed before b legitimately: a strictly more severe impact, or the
\* same impact and at least the potentialValueIncrease.
RanksNoLower(a, b) ==
    \/ impactOrder[a.impact] < impactOrder[b.impact]
    \/ /\ a.impact = b.impact
       /\ a.potentialValueIncrease >= b.potentialValueIncrease

\* C8: generateRecommendations returns at most 10 recommendations, every
\* adjacent pair ordered by impact severity and then by descending
\* potentialValueIncrease, and every recommendation that fired but was left out
\* ranks no higher than every one returned.
RecommendationsSortedTopTen ==
    pc = "generateRecommendations" =>
        /\ Len(result) <= 10
        /\ \A i \in 1..(Len(result) - 1) : RanksNoLower(result[i], result[i + 1])
        /\ \A i \in 1..Len(Fired) :
              (\A j \in 1..Len(result) : result[j] # Fired[i]) =>
                  \A j \in 1..Len(result) : RanksNoLower(result[j], Fired[i])

\* C8 witness: generateRecommendations has returned for facts on which all
\* twelve rules fire, so two recommendations were left out.
RecommendationsSortedTopTenWitness ==
    /\ pc = "generateRecommendations"
    /\ Len(Fired) = 12
    /\ Len(result) = 10

\* C9: when technical.hasHttps is false, the first recommendation returned is
\* the critical "Enable HTTPS" one, whatever other rules fire.
HttpsFirst ==
    (pc = "generateRecommendations" /\ ~facts.technical.hasHttps) =>
        /\ Len(result) >= 1
        /\ result[1].title = "Enable HTTPS"
        /\ result[1].impact = "critical"

\* C9 witness: generateRecommendations has returned for facts without HTTPS
\* and with performanceScore 30: "Enable HTTPS" is listed first and the
\* high-impact page-speed recommendation, worth more, right after it.
HttpsFirstWitness ==
    /\ pc = "generateRecommendations"
    /\ ~facts.technical.hasHttps
    /\ facts.performance # NULL /\ facts.performance.performanceScore = 30
    /\ result[1].title = "Enable HTTPS"
    /\ result[2].title = "Improve page speed"

(***************************************************************************)
(* Each engine applied twice in a row to the same facts                    *)
(***************************************************************************)
InitRepeat ==
    /\ \E f \in Sites, v \in {0, 1000, 100000}, m \in Monetizations :
            facts = [WithEstimates(f) EXCEPT !.traffic.estimatedMonthlyVisitors = v, !.monetization = m]
    /\ result = NoResult
    /\ pc = "start"

CalculateScoresAgain ==
    /\ pc = "calculateScores"
    /\ result' = calculateScores(facts.domain, facts.performance, facts.technical, facts.dns, facts.security, facts.seo, facts.content, facts.social, facts.monetization)
    /\ pc' = "calculateScoresAgain"
    /\ UNCHANGED facts

EstimateTrafficAgain ==
    /\ pc = "estimateTraffic"
    /\ result' = estimateTraffic(facts.domain, facts.performance, facts.seo, facts.content, facts.social, facts.technology, facts.trancoRank, facts.socialFollowers)
    /\ pc' = "estimateTrafficAgain"
    /\ UNCHANGED facts

\* The second call is handed the monetization record the first call wrote into.
CalculateValuationAgain ==
    /\ pc = "calculateValuation"
    /\ result' = calculateValuation(facts.domain, facts.traffic, facts.monetization, facts.scores, facts.industry)
    /\ facts' = [facts EXCEPT !.monetization = UpdatedMonetization(facts.traffic, facts.monetization, facts.industry)]
    /\ pc' = "calculateValuationAgain"

GenerateRecommendationsAgain ==
    /\ pc = "generateRecommendations"
    /\ result' = generateRecommendations(facts.domain, facts.performance, facts.technical, facts.security, facts.seo, facts.content, facts.social, facts.monetization)
    /\ pc' = "generateRecommendationsAgain"
    /\ UNCHANGED facts

NextRepeat ==
    \/ CalculateScores \/ CalculateScoresAgain
    \/ EstimateTraffic \/ EstimateTrafficAgain
    \/ CalculateValuation \/ CalculateValuationAgain
    \/ GenerateRecommendations \/ GenerateRecommendationsAgain

SpecRepeat == InitRepeat /\ [][NextRepeat]_vars

\* C11: calling calculateScores, estimateTraffic, calculateValuation or
\* generateRecommendations a second time with the same inputs (for
\* calculateValuation: on the monetization record the first call has written
\* into) returns what the first call returned and leaves the inputs as the
\* first call left them.
SecondCallReturnsTheSame ==
    [][(pc \in {"calculateScores", "estimateTraffic", "calculateValuation", "generateRecommendations"}) => (result' = result /\ facts' = facts)]_vars

\* C11 witness: calculateValuation has returned a second time, on a
\* monetization record in which the first call left a revenue estimate.
SecondCallReturnsTheSameWitness ==
    /\ pc = "calculateValuationAgain"
    /\ facts.monetization.estimatedMonthlyRevenue.mid > 0
    /\ result.breakdown.revenueMultiple > 0

(***************************************************************************)
(* analyzeWebsite: page fetch, the adapters awaited together, the social   *)
(* scrape, then the synchronous analyses and engines                       *)
(***************************************************************************)
\* How one external request ends: with data, with an answer holding no
\* data, or with an exception inside the adapter.
Outcomes == {"data", "nodata", "fails"}

\* A rejected promise.
Thrown == [thrown |-> TRUE]

\* getWaybackHistory: every failure path returns the record without history.
getWaybackHistory(outcome) ==
    IF outcome = "data" THEN Wayback(37, 60) ELSE Wayback(0, 0)

\* getPageSpeedInsights: null after the attempts are used up.
getPageSpeedInsights(outcome) ==
    IF outcome = "data" THEN PageSpeed(80) ELSE NULL

\* getTrancoRank: the unranked record for an empty list and from the catch.
getTrancoRank(outcome) ==
    IF outcome = "data" THEN Ranked(1000) ELSE Unranked

\* analyzeCrawlability: a failing robots.txt request leaves the initial result.
analyzeCrawlability(outcome) ==
    IF outcome = "data" THEN [hasRobotsTxt |-> TRUE, hasSitemap |-> TRUE, estimatedPageCount |-> 30]
    ELSE [hasRobotsTxt |-> FALSE, hasSitemap |-> FALSE, estimatedPageCount |-> 0]

\* The result analyzeDns starts from.
DnsDefault ==
    [hasMxRecords |-> FALSE, hasSpfRecord |-> FALSE, hasDmarcRecord |-> FALSE, isUsingCloudflare |-> FALSE, hasProperEmailSetup |-> FALSE]

\* analyzeDns: four lookups in a row (MX, TXT, DMARC, NS) inside one try,
\* each writing into the result as soon as it is answered; the catch keeps
\* what was written before the lookup that threw.
analyzeDns(lookups) ==
    LET Reached(i) == \A j \in 1..i : lookups[j] # "fails"
        hasMxRecords == Reached(1) /\ lookups[1] = "data"
        hasSpfRecord == Reached(2) /\ lookups[2] = "data"
    IN  [hasMxRecords |-> hasMxRecords,
         hasSpfRecord |-> hasSpfRecord,
         hasDmarcRecord |-> Reached(3) /\ lookups[3] = "data",
         isUsingCloudflare |-> Reached(4) /\ lookups[4] = "data",
         hasProperEmailSetup |-> Reached(4) /\ hasMxRecords /\ hasSpfRecord]

calculateInfrastructureScore(dns) ==
    20 * BoolToInt(dns.hasMxRecords) + 20 * BoolToInt(dns.hasSpfRecord) + 20 * BoolToInt(dns.hasDmarcRecord) + 20 * BoolToInt(dns.isUsingCloudflare) + 20 * BoolToInt(dns.hasProperEmailSetup)

\* getSSLLabsGrade, getRdapData, getIndexedPageCount, getCruxData,
\* getBacklinkEstimate, getBrandMentions: the flag the aggregate tests.
getSSLLabsGrade(outcome) == [analysisComplete |-> outcome = "data"]
getRdapData(outcome) == [registrar |-> IF outcome = "data" THEN "registrar" ELSE ""]
getIndexedPageCount(outcome) == [estimatedCount |-> IF outcome = "data" THEN [count |-> 120] ELSE NULL]
getCruxData(outcome) == [hasData |-> outcome = "data"]
getBacklinkEstimate(outcome) == [hasBacklinkData |-> outcome = "data"]
getBrandMentions(outcome) == [hasBrandPresence |-> outcome = "data"]

\* scrapeSocialFollowers when every platform scrape settles before the
\* timeout: a platform whose scrape found nothing or threw counts null.
scrapeSocialFollowers(outcome) ==
    IF outcome = "data" THEN Followers(50000) ELSE Followers(0)

\* The outcomes of the four lookups of analyzeDns: all answered, all empty,
\* or answered up to the lookup that throws.
DnsLookups ==
    {<<"data", "data", "data", "data">>, <<"nodata", "nodata", "nodata", "nodata">>, <<"fails", "fails", "fails", "fails">>, <<"data", "fails", "fails", "fails">>, <<"data", "data", "fails", "fails">>, <<"data", "data", "data", "fails">>}

\* The adapters whose result goes to the aggregate only.
ReportAdapters == {"ssl", "rdap", "indexedPages", "crux", "backlinks", "brandMentions"}

\* Their outcomes: the same for all, or one of them apart from the others.
ReportOutcomes ==
    {o \in [ReportAdapters -> Outcomes] : \E a \in ReportAdapters : \A b \in ReportAdapters \ {a} : o[b] = "data"}

\* The synchronous analyses of the fetched page, or of the empty string
\* left by a failed fetch (loadTime 3000).
PageAnalyses(html) ==
    IF html THEN TypicalSite
    ELSE SiteFacts(TypicalSite.domain, NULL,
                   [Technical(FALSE, 3000) EXCEPT !.hasHttps = TRUE],
                   analyzeSecurityHeaders(TRUE, FALSE, FALSE, TRUE, TRUE),
                   Seo(0, FALSE, 0),
                   analyzeContentComprehensive(0, 100, FALSE, FALSE, FALSE, FALSE, 0),
                   analyzeSocialComprehensive(0, FALSE),
                   analyzeMonetization(FALSE, FALSE, FALSE, FALSE, FALSE, FALSE),
                   Technology(FALSE, FALSE, "", ""), Unranked, NULL, "general")

InitAnalyze ==
    /\ facts = [url |-> "https://shopsite.io"]
    /\ result = NoResult
    /\ pc = "fetch"

\* try { fetch; html = text } catch { loadTime = 3000 }
FetchPage ==
    /\ pc = "fetch"
    /\ \E fetched \in BOOLEAN : facts' = [url |-> facts.url, html |-> fetched]
    /\ pc' = "gather"
    /\ UNCHANGED result

\* await Promise.all([...]): resolves with every adapter's value, rejects if
\* one of the promises rejects.
GatherAdapters ==
    /\ pc = "gather"
    /\ \E wayback \in Outcomes, pageSpeed \in Outcomes, tranco \in Outcomes, crawl \in Outcomes, lookups \in DnsLookups, report \in ReportOutcomes :
        LET settled ==
                [wayback |-> getWaybackHistory(wayback),
                 dnsAnalysis |-> analyzeDns(lookups),
                 crawlability |-> analyzeCrawlability(crawl),
                 pageSpeedResult |-> getPageSpeedInsights(pageSpeed),
                 trancoRank |-> getTrancoRank(tranco),
                 sslResult |-> getSSLLabsGrade(report["ssl"]),
                 rdapData |-> getRdapData(report["rdap"]),
                 indexedPages |-> getIndexedPageCount(report["indexedPages"]),
                 cruxData |-> getCruxData(report["crux"]),
                 backlinks |-> getBacklinkEstimate(report["backlinks"]),
                 brandMentions |-> getBrandMentions(report["brandMentions"])]
        IN  IF \E a \in DOMAIN settled : settled[a] = Thrown
            THEN pc' = "rejected" /\ UNCHANGED facts
            ELSE /\ facts' = [url |-> facts.url, html |-> facts.html,
                              outcome |-> [wayback |-> wayback, pageSpeed |-> pageSpeed, tranco |-> tranco, crawl |-> crawl, lookups |-> lookups, report |-> report],
                              settled |-> settled]
                 /\ pc' = "scrape"
    /\ UNCHANGED result

\* if (html) socialFollowersData = await scrapeSocialFollowers(html, domainName)
ScrapeSocial ==
    /\ pc = "scrape"
    /\ IF facts.html
       THEN \E social \in Outcomes : facts' = [socialOutcome |-> social, socialFollowersData |-> scrapeSocialFollowers(social)] @@ facts
       ELSE facts' = [socialOutcome |-> "nodata", socialFollowersData |-> NULL] @@ facts
    /\ pc' = "score"
    /\ UNCHANGED result

\* The synchronous analyses, the four engines and the returned aggregate.
ScoreAndReturn ==
    /\ pc = "score"
    /\ \E page \in {PageAnalyses(facts.html)} :
       \E domainAnalysis \in {analyzeDomainComprehensive(page.domain.tld, page.domain.length, page.domain.hasNumbers, page.domain.hasHyphens, page.domain.keywordsFound, facts.settled.wayback)} :
       \E seoAnalysis \in {[page.seo EXCEPT !.hasSitemap = facts.settled.crawlability.hasSitemap, !.hasRobotsTxt = facts.settled.crawlability.hasRobotsTxt, !.estimatedPageCount = facts.settled.crawlability.estimatedPageCount]} :
       \E dns \in {[infrastructureScore |-> calculateInfrastructureScore(facts.settled.dnsAnalysis)] @@ facts.settled.dnsAnalysis} :
       \E trafficEstimate \in {estimateTraffic(domainAnalysis, facts.settled.pageSpeedResult, seoAnalysis, page.content, page.social, page.technology, facts.settled.trancoRank, facts.socialFollowersData)} :
       \E scores \in {calculateScores(domainAnalysis, facts.settled.pageSpeedResult, page.technical, dns, page.security, seoAnalysis, page.content, page.social, page.monetization)} :
       \E valuation \in {calculateValuation(domainAnalysis, trafficEstimate, page.monetization, scores, page.industry)} :
            result' = [domain |-> domainAnalysis,
                       performance |-> facts.settled.pageSpeedResult,
                       dns |-> dns,
                       seo |-> seoAnalysis,
                       traffic |-> trafficEstimate,
                       ranking |-> IF facts.settled.trancoRank.isRanked THEN facts.settled.trancoRank ELSE NULL,
                       socialFollowers |-> facts.socialFollowersData,
                       ssl |-> IF facts.settled.sslResult.analysisComplete THEN facts.settled.sslResult ELSE NULL,
                       rdap |-> IF facts.settled.rdapData.registrar # "" THEN facts.settled.rdapData ELSE NULL,
                       indexedPages |-> IF facts.settled.indexedPages.estimatedCount # NULL THEN facts.settled.indexedPages ELSE NULL,
                       crux |-> IF facts.settled.cruxData.hasData THEN facts.settled.cruxData ELSE NULL,
                       backlinks |-> IF facts.settled.backlinks.hasBacklinkData THEN facts.settled.backlinks ELSE NULL,
                       brandMentions |-> IF facts.settled.brandMentions.hasBrandPresence THEN facts.settled.brandMentions ELSE NULL,
                       scores |-> scores,
                       estimatedValue |-> valuation.value,
                       valueRange |-> valuation.range,
                       recommendations |-> generateRecommendations(domainAnalysis, facts.settled.pageSpeedResult, page.technical, page.security, seoAnalysis, page.content, page.social, page.monetization)]
    /\ pc' = "returned"
    /\ UNCHANGED facts

NextAnalyze == FetchPage \/ GatherAdapters \/ ScrapeSocial \/ ScoreAndReturn

SpecAnalyze == InitAnalyze /\ [][NextAnalyze]_vars

\* C13 as stated: whatever the outcomes of the page fetch and of the adapters,
\* analyzeWebsite is never rejected; in the aggregate it returns, an adapter
\* that failed internally has contributed its no-data sentinel, and what each
\* adapter contributes is determined by its own outcome alone.
AdapterIsolation ==
    /\ pc # "rejected"
    /\ pc = "returned" =>
        /\ result.domain.ageYears = (IF facts.outcome.wayback = "data" THEN 37 ELSE 0)
        /\ result.performance = (IF facts.outcome.pageSpeed = "data" THEN PageSpeed(80) ELSE NULL)
        /\ result.ranking = (IF facts.outcome.tranco = "data" THEN Ranked(1000) ELSE NULL)
        /\ result.seo.estimatedPageCount = (IF facts.outcome.crawl = "data" THEN 30 ELSE 0)
        /\ \A a \in ReportAdapters : (result[a] # NULL) <=> (facts.outcome.report[a] = "data")
        /\ result.socialFollowers = (IF ~facts.html THEN NULL ELSE IF facts.socialOutcome = "data" THEN Followers(50000) ELSE Followers(0))
        /\ (\E i \in 1..4 : facts.outcome.lookups[i] = "fails") => result.dns = [infrastructureScore |-> 0] @@ DnsDefault
        /\ result.scores.overall \in 0..100

(***************************************************************************)
(* scrapeSocialFollowers racing its platform scrapes against the 10 s      *)
(* timer, and analyzeWebsite scoring with the record it returns            *)
(***************************************************************************)
Platforms == {"twitter", "linkedin", "facebook"}

\* What a platform scrape resolves with; 0 stands for the null of a page
\* without a follower figure and of the scrape's own catch.
FollowerCounts == {0, 600, 50000}

\* RaceResolved awaiting Promise.allSettled(scrapePromises) alone.
RaceWithoutTimer(status, timer) ==
    \A p \in Platforms : status[p] # "pending"

\* Promise.race([Promise.allSettled(scrapePromises), timer]) has resolved.
RaceResolved(status, timer) ==
    (\A p \in Platforms : status[p] # "pending") \/ timer = "fired"

\* The .then callback of one platform scrape, writing into the result object.
Settled(record, p, count) ==
    [record EXCEPT ![p] = count,
                   !.totalFollowers = IF count # 0 THEN @ + count ELSE @,
                   !.platformsWithData = IF count # 0 THEN @ + 1 ELSE @]

InitScrape ==
    /\ \E links \in SUBSET Platforms, count \in [Platforms -> FollowerCounts] :
            facts = [links |-> links,
                     count |-> count,
                     status |-> [p \in Platforms |-> IF p \in links THEN "pending" ELSE "none"],
                     timer |-> "armed",
                     record |-> [twitter |-> 0, linkedin |-> 0, facebook |-> 0, totalFollowers |-> 0, platformsWithData |-> 0]]
    /\ result = NoResult
    /\ pc = "racing"

\* A platform scrape settles and its callback runs, whenever that happens;
\* the aggregate holds the very object the callback writes into.
Settle ==
    /\ pc \in {"racing", "returned"}
    /\ \E p \in Platforms :
        /\ facts.status[p] = "pending"
        /\ facts' = [facts EXCEPT !.status[p] = "settled", !.record = Settled(@, p, facts.count[p])]
        /\ result' = IF pc = "returned" THEN [result EXCEPT !.socialFollowers = Settled(@, p, facts.count[p])] ELSE result
    /\ UNCHANGED pc

\* setTimeout(resolve, 10000)
Timeout ==
    /\ pc = "racing"
    /\ facts.timer = "armed"
    /\ facts' = [facts EXCEPT !.timer = "fired"]
    /\ UNCHANGED <<result, pc>>

\* The await on the race is over: return result.
ReturnFollowers ==
    /\ pc = "racing"
    /\ RaceResolved(facts.status, facts.timer)
    /\ pc' = "scraped"
    /\ UNCHANGED <<facts, result>>

\* analyzeWebsite goes on synchronously: estimateTraffic reads the record and
\* the aggregate is returned holding a reference to it.
ScoreWithFollowers ==
    /\ pc = "scraped"
    /\ result' = [traffic |-> estimateTraffic(TypicalSite.domain, TypicalSite.performance, TypicalSite.seo, TypicalSite.content, TypicalSite.social, TypicalSite.technology, TypicalSite.trancoRank, facts.record),
                  socialFollowers |-> facts.record]
    /\ pc' = "returned"
    /\ UNCHANGED facts

NextScrape == Settle \/ Timeout \/ ReturnFollowers \/ ScoreWithFollowers

\* The timer fires and the continuation of the await runs; a platform scrape
\* need not ever settle.
SpecScrape == InitScrape /\ [][NextScrape]_vars /\ WF_vars(Timeout) /\ WF_vars(ReturnFollowers)

\* C14 as stated: once analyzeWebsite has scored and returned, the
\* socialFollowers record of the aggregate holds the figures estimateTraffic
\* used, also when a platform scrape settles after the timeout.
FollowersWrittenOnce ==
    pc = "returned" =>
        result.traffic = estimateTraffic(TypicalSite.domain, TypicalSite.performance, TypicalSite.seo, TypicalSite.content, TypicalSite.social, TypicalSite.technology, TypicalSite.trancoRank, result.socialFollowers)

\* The figures of the platform scrapes that have settled.
FinishedCounts ==
    LET Finished(p) == IF facts.status[p] = "settled" THEN facts.count[p] ELSE 0
    IN  [twitter |-> Finished("twitter"),
         linkedin |-> Finished("linkedin"),
         facebook |-> Finished("facebook"),
         totalFollowers |-> Finished("twitter") + Finished("linkedin") + Finished("facebook"),
         platformsWithData |-> Cardinality({p \in Platforms : Finished(p) # 0})]

\* C15: scrapeSocialFollowers always gets past its await, even if a platform
\* scrape never settles, and the record it then returns holds the counts of
\* exactly the scrapes that had finished.
ScrapeReturnsByTimeout ==
    /\ [](pc = "scraped" => facts.record = FinishedCounts)
    /\ <>(pc # "racing")

\* C15 witness: scrapeSocialFollowers has returned on the timer with one
\* platform counted and another still pending.
ScrapeReturnsByTimeoutWitness ==
    /\ pc = "scraped"
    /\ facts.timer = "fired"
    /\ \E p \in Platforms : facts.status[p] = "pending" /\ facts.count[p] # 0
    /\ \E p \in Platforms : facts.status[p] = "settled" /\ facts.record[p] = 50000
    /\ facts.record.totalFollowers = 50000

(***************************************************************************)
(* analyzeWebsite: dataSourcesUsed, written by the callbacks of the        *)
(* adapters awaited together in whatever order they complete               *)
(***************************************************************************)
\* The promises of the Promise.all whose labels are followed here.
\* getRdapData, getIndexedPageCount, getCruxData, getBacklinkEstimate and
\* getBrandMentions push from their .then exactly as getSSLLabsGrade does.
ConcurrentAdapters == {"domain", "dns", "crawl", "pageSpeed", "tranco", "ssl"}

\* How the requests of the adapters end.
SourceOutcomes ==
    [domain : {"data", "fails"}, crawl : {"data", "fails"}, pageSpeed : {"data", "fails"}, tranco : {"data", "nodata"}, ssl : {"data", "fails"},
     dns : {<<"data", "data", "data", "data">>, <<"data", "fails", "fails", "fails">>, <<"fails", "fails", "fails", "fails">>}]

\* The fetched page: none (html stays ''), or one with or without follower
\* counts to scrape and a mobile-friendly layout.
SourcePages ==
    {[html |-> FALSE, followers |-> FALSE, isMobileFriendly |-> FALSE],
     [html |-> TRUE, followers |-> FALSE, isMobileFriendly |-> FALSE],
     [html |-> TRUE, followers |-> TRUE, isMobileFriendly |-> FALSE],
     [html |-> TRUE, followers |-> TRUE, isMobileFriendly |-> TRUE]}

\* domainAnalysis.firstIndexed is wayback.firstSnapshot, a Date exactly when
\* getWaybackHistory returns snapshots.
FirstIndexed(outcome) == getWaybackHistory(outcome).totalSnapshots > 0

\* What the .then callback of an adapter pushes when the adapter resolves.
PushedOnCompletion(a, outcome) ==
    CASE a = "domain" -> <<>>
      [] a = "dns" -> <<"Google DNS-over-HTTPS">>
      [] a = "crawl" ->
            (IF analyzeCrawlability(outcome.crawl).hasRobotsTxt THEN <<"robots.txt">> ELSE <<>>)
            \o (IF analyzeCrawlability(outcome.crawl).hasSitemap THEN <<"XML Sitemap">> ELSE <<>>)
      [] a = "pageSpeed" -> IF getPageSpeedInsights(outcome.pageSpeed) # NULL THEN <<"Google PageSpeed Insights API">> ELSE <<>>
      [] a = "tranco" -> IF getTrancoRank(outcome.tranco).isRanked THEN <<"Tranco Domain Ranking">> ELSE <<>>
      [] a = "ssl" -> IF getSSLLabsGrade(outcome.ssl).analysisComplete THEN <<"SSL Labs Security Analysis">> ELSE <<>>

InitSources ==
    /\ \E outcome \in SourceOutcomes, page \in SourcePages : facts = [outcome |-> outcome, page |-> page]
    /\ result = [dataSourcesUsed |-> <<"HTML Analysis">>, completed |-> <<>>]
    /\ pc = "fetch"

\* try { fetch; html = text; push('Direct Fetch') } catch { loadTime = 3000 }
FetchAndLabel ==
    /\ pc = "fetch"
    /\ result' = [result EXCEPT !.dataSourcesUsed = IF facts.page.html THEN Append(@, "Direct Fetch") ELSE @]
    /\ pc' = "gather"
    /\ UNCHANGED facts

\* One promise of the Promise.all resolves and its .then callback runs.
AdapterCompletes ==
    /\ pc = "gather"
    /\ \E a \in ConcurrentAdapters :
          /\ \A i \in 1..Len(result.completed) : result.completed[i] # a
          /\ result' = [dataSourcesUsed |-> result.dataSourcesUsed \o PushedOnCompletion(a, facts.outcome),
                        completed |-> Append(result.completed, a)]
    /\ UNCHANGED <<facts, pc>>

\* The await of Promise.all returns: if (domainAnalysis.firstIndexed) push.
AwaitAll ==
    /\ pc = "gather"
    /\ Len(result.completed) = Cardinality(ConcurrentAdapters)
    /\ result' = [result EXCEPT !.dataSourcesUsed = IF FirstIndexed(facts.outcome.domain) THEN Append(@, "Archive.org Wayback Machine") ELSE @]
    /\ pc' = "scrape"
    /\ UNCHANGED facts

\* if (html) { await scrapeSocialFollowers; if (platformsWithData > 0) push }
ScrapeAndLabel ==
    /\ pc = "scrape"
    /\ result' = [result EXCEPT !.dataSourcesUsed =
                    IF facts.page.html /\ scrapeSocialFollowers(IF facts.page.followers THEN "data" ELSE "nodata").platformsWithData > 0
                    THEN Append(@, "Social Media Follower Data") ELSE @]
    /\ pc' = "analyse"
    /\ UNCHANGED facts

\* if (mobileAnalysis.isMobileFriendly) push, then the result is built.
MobileAndReturn ==
    /\ pc = "analyse"
    /\ result' = [result EXCEPT !.dataSourcesUsed = IF facts.page.isMobileFriendly THEN Append(@, "Mobile-Friendly Analysis") ELSE @]
    /\ pc' = "returned"
    /\ UNCHANGED facts

NextSources == FetchAndLabel \/ AdapterCompletes \/ AwaitAll \/ ScrapeAndLabel \/ MobileAndReturn

SpecSources == InitSources /\ [][NextSources]_vars

\* Whether the list holds the label, and where.
Listed(label) == \E i \in 1..Len(result.dataSourcesUsed) : result.dataSourcesUsed[i] = label
ListedAt(label) == CHOOSE i \in 1..Len(result.dataSourcesUsed) : result.dataSourcesUsed[i] = label
CompletedAt(a) == CHOOSE i \in 1..Len(result.completed) : result.completed[i] = a

\* The label by which each concurrent adapter is listed (robots.txt for the
\* crawlability check, whose sitemap label follows it in the same callback).
LabelOf(a) ==
    CASE a = "domain" -> "Archive.org Wayback Machine"
      [] a = "dns" -> "Google DNS-over-HTTPS"
      [] a = "crawl" -> "robots.txt"
      [] a = "pageSpeed" -> "Google PageSpeed Insights API"
      [] a = "tranco" -> "Tranco Domain Ranking"
      [] a = "ssl" -> "SSL Labs Security Analysis"

\* Whether the adapter came back with data: for analyzeDns, whether any of
\* its lookups was answered at all.
ReturnedData(a) ==
    CASE a = "domain" -> FirstIndexed(facts.outcome.domain)
      [] a = "dns" -> \E i \in 1..4 : facts.outcome.dns[i] # "fails"
      [] a = "crawl" -> analyzeCrawlability(facts.outcome.crawl).hasRobotsTxt
      [] a = "pageSpeed" -> getPageSpeedInsights(facts.outcome.pageSpeed) # NULL
      [] a = "tranco" -> getTrancoRank(facts.outcome.tranco).isRanked
      [] a = "ssl" -> getSSLLabsGrade(facts.outcome.ssl).analysisComplete

\* C26 as stated: when analyzeWebsite returns, whatever the order in which
\* the adapters completed, dataSourcesUsed starts with 'HTML Analysis', holds
\* no label twice, holds an adapter's label exactly when that adapter returned
\* data, and lists the labels of the concurrent adapters in the order in which
\* the adapters completed.
SourcesFollowCompletions ==
    pc = "returned" =>
        /\ Head(result.dataSourcesUsed) = "HTML Analysis"
        /\ \A i, j \in 1..Len(result.dataSourcesUsed) : result.dataSourcesUsed[i] = result.dataSourcesUsed[j] => i = j
        /\ \A a \in ConcurrentAdapters : Listed(LabelOf(a)) <=> ReturnedData(a)
        /\ Listed("XML Sitemap") <=> analyzeCrawlability(facts.outcome.crawl).hasSitemap
        /\ \A a, b \in ConcurrentAdapters :
              (Listed(LabelOf(a)) /\ Listed(LabelOf(b)) /\ CompletedAt(a) < CompletedAt(b)) => ListedAt(LabelOf(a)) < ListedAt(LabelOf(b))

(***************************************************************************)
(* analyzeContentComprehensive: words, sentences and readability of the    *)
(* page text                                                               *)
(***************************************************************************)
\* textContent as written sentences: each a sequence of words given by their
\* lengths, separated by single spaces and closed by a full stop, the
\* sentences separated by single spaces.
\* A sentence of nLong words of five letters followed by nShort of two.
Sentence(nLong, nShort) == [i \in 1..(nLong + nShort) |-> IF i <= nLong THEN 5 ELSE 2]

SentenceCounts == 0..2
LongWordCounts == {1, 8, 16, 20, 120}
ShortWordCounts == {0, 1, 4, 10}

WrittenSentences == {Sentence(nLong, nShort) : nLong \in LongWordCounts, nShort \in ShortWordCounts}

\* textContent.split(/\s+/): the lengths of the tokens; the last word of a
\* sentence carries the full stop, and the empty text splits into [''].
RECURSIVE Tokens(_)
Tokens(textContent) ==
    IF textContent = <<>> THEN <<>>
    ELSE [i \in 1..Len(Head(textContent)) |-> IF i = Len(Head(textContent)) THEN Head(textContent)[i] + 1 ELSE Head(textContent)[i]]
         \o Tokens(Tail(textContent))

SplitOnWhitespace(textContent) == IF textContent = <<>> THEN <<0>> ELSE Tokens(textContent)

LongerThanTwo(length) == length > 2

\* const words = textContent.split(/\s+/).filter(word => word.length > 2)
Words(textContent) == SelectSeq(SplitOnWhitespace(textContent), LongerThanTwo)

\* The length of a sentence between two full stops, trimmed.
RECURSIVE TrimmedLength(_)
TrimmedLength(sentence) ==
    IF sentence = <<>> THEN 0
    ELSE Head(sentence) + (IF Tail(sentence) = <<>> THEN 0 ELSE 1 + TrimmedLength(Tail(sentence)))

\* Six words and the five spaces between them are already longer than ten.
LongerThanTen(sentence) == Len(sentence) >= 6 \/ TrimmedLength(sentence) > 10

\* textContent.split(/[.!?]+/).filter(s => s.trim().length > 10); the piece
\* after the last full stop is empty.
SentencesOf(textContent) == SelectSeq(textContent, LongerThanTen)

\* Math.round(Math.max(0, Math.min(100, 100 - (count / sentences - 15) * 3))),
\* the average 0 without sentences.
Readability(count, sentences) ==
    IF sentences = 0 THEN 100
    ELSE IF 145 * sentences - 3 * count <= 0 THEN 0
    ELSE IF 145 * sentences - 3 * count >= 100 * sentences THEN 100
    ELSE Round(145 * sentences - 3 * count, sentences)

\* readabilityScore: avgWordsPerSentence = words.length / sentences.length
ReadabilityScore(textContent) == Readability(Len(Words(textContent)), Len(SentencesOf(textContent)))

InitContent ==
    /\ \E n \in SentenceCounts : \E textContent \in [1..n -> WrittenSentences] : facts = [textContent |-> textContent]
    /\ result = NoResult
    /\ pc = "start"

AnalyzeContent ==
    /\ pc = "start"
    /\ result' = analyzeContentComprehensive(Len(Words(facts.textContent)), ReadabilityScore(facts.textContent), FALSE, FALSE, FALSE, FALSE, 0)
    /\ pc' = "analyzeContentComprehensive"
    /\ UNCHANGED facts

SpecContent == InitContent /\ [][AnalyzeContent]_vars

\* C27 as stated: wordCount and the content-depth tier count only the
\* whitespace-delimited tokens longer than 2 characters, while the readability
\* score takes its words-per-sentence ratio from all whitespace-delimited
\* tokens, those of length <= 2 included.
ReadabilityFromAllTokens ==
    pc = "analyzeContentComprehensive" =>
        /\ result.wordCount = Cardinality({i \in 1..Len(SplitOnWhitespace(facts.textContent)) : SplitOnWhitespace(facts.textContent)[i] > 2})
        /\ result.contentDepthScore = ContentDepthScore(result.wordCount)
        /\ result.readabilityScore = Readability(Len(SplitOnWhitespace(facts.textContent)), Len(SentencesOf(facts.textContent)))

(***************************************************************************)
(* App: the display state (status, analysis, error) under the user's       *)
(* actions and the completions of the analyses in flight                   *)
(***************************************************************************)
\* The calls of handleAnalyze, numbered in the order they are made.
Requests == 1..3

\* The WebsiteAnalysis an analysis resolves with, the entry the history panel
\* hands over, and the message of a rejection.
AnalysisOf(request) == [analysis |-> request]
HistoryEntry == [analysis |-> 0]
ErrorOf(request) == [message |-> request]

\* facts: the analyses in flight, the number started, the request of the
\* most recent user action (0 when it was not handleAnalyze) and the results
\* handed to saveToHistory.  result: the three pieces of React state.
InitApp ==
    /\ facts = [inFlight |-> {}, started |-> 0, latest |-> 0, saved |-> {}]
    /\ result = [status |-> "idle", analysis |-> NULL, error |-> NULL]
    /\ pc = "idle"

\* handleAnalyze up to its await; UrlInput is rendered while status is idle.
HandleAnalyze ==
    /\ result.status = "idle"
    /\ facts.started + 1 \in Requests
    /\ result' = [result EXCEPT !.status = "analyzing", !.error = NULL]
    /\ facts' = [facts EXCEPT !.inFlight = @ \cup {facts.started + 1}, !.started = @ + 1, !.latest = facts.started + 1]
    /\ pc' = "handleAnalyze"

\* handleReset, offered by the results dashboard and by the error views.
HandleReset ==
    /\ \/ result.status = "complete" /\ result.analysis # NULL
       \/ result.status = "error"
    /\ result' = [status |-> "idle", analysis |-> NULL, error |-> NULL]
    /\ facts' = [facts EXCEPT !.latest = 0]
    /\ pc' = "handleReset"

\* handleLoadFromHistory; the footer's History button is rendered in every
\* status.
HandleLoadFromHistory ==
    /\ result' = [status |-> "complete", analysis |-> HistoryEntry, error |-> NULL]
    /\ facts' = [facts EXCEPT !.latest = 0]
    /\ pc' = "handleLoadFromHistory"

\* The await of handleAnalyze returns: setAnalysis, setStatus, saveToHistory.
AnalysisResolves ==
    /\ \E request \in facts.inFlight :
          /\ result' = [result EXCEPT !.analysis = AnalysisOf(request), !.status = "complete"]
          /\ facts' = [facts EXCEPT !.inFlight = @ \ {request}, !.saved = @ \cup {request}]
    /\ pc' = "resolved"

\* The await of handleAnalyze throws: setError, setStatus.
AnalysisRejects ==
    /\ \E request \in facts.inFlight :
          /\ result' = [result EXCEPT !.error = ErrorOf(request), !.status = "error"]
          /\ facts' = [facts EXCEPT !.inFlight = @ \ {request}]
    /\ pc' = "rejected"

NextApp == HandleAnalyze \/ HandleReset \/ HandleLoadFromHistory \/ AnalysisResolves \/ AnalysisRejects

SpecApp == InitApp /\ [][NextApp]_vars

\* C28 as stated: for every interleaving of handleAnalyze, handleReset,
\* handleLoadFromHistory and the completions, by success or failure, of the
\* analyses in flight, the display follows the most recent user action only:
\* the completion of an analysis that is not the most recent user action
\* leaves status, analysis and error as they are, and whenever status is
\* 'complete' the analysis is non-null and error is null.
DisplayFollowsLatestAction ==
    /\ [](result.status = "complete" => (result.analysis # NULL /\ result.error = NULL))
    /\ [][(pc' \in {"resolved", "rejected"} /\ facts.inFlight \ facts'.inFlight # {facts.latest}) => (result' = result)]_vars

(***************************************************************************)
(* historyService: the history stored under STORAGE_KEY                    *)
(***************************************************************************)
MAX_ENTRIES == 100

\* A stored entry: its id (generateId, never repeated) and its timestamp.
Entry(id, timestamp) == [id |-> id, timestamp |-> timestamp]

\* history.slice(0, MAX_ENTRIES) keeping the other end of the list.
TrimmedToOldest(history) == SubSeq(history, Max(1, Len(history) - MAX_ENTRIES + 1), Len(history))

\* history.slice(0, MAX_ENTRIES)
Trimmed(history) == SubSeq(history, 1, Min(Len(history), MAX_ENTRIES))

\* history.filter((e) => e.id !== id)
RECURSIVE Filtered(_, _)
Filtered(history, id) ==
    IF history = <<>> THEN <<>>
    ELSE (IF Head(history).id # id THEN <<Head(history)>> ELSE <<>>) \o Filtered(Tail(history), id)

\* The numbers of entries already saved at the start, and of calls followed.
StoredCounts == {0, 3, 99}
CallCounts == 0..4

\* The history left by n successful saves, one per clock tick.
InitHistory ==
    /\ \E n \in StoredCounts :
          facts = [stored |-> [i \in 1..n |-> Entry(n + 1 - i, n + 1 - i)], nextId |-> n + 1, now |-> n, calls |-> 0, failed |-> FALSE, id |-> 0]
    /\ result = NoResult
    /\ pc = "start"

\* saveToHistory: the entry is built first; getItem, JSON.parse, unshift,
\* slice and setItem run inside one try whose catch only warns.  Date.now()
\* does not go back between calls.
SaveToHistory ==
    /\ facts.calls + 1 \in CallCounts
    /\ \E storageFails \in BOOLEAN, tick \in {0, 1} :
          \E entry \in {Entry(facts.nextId, facts.now + tick)} :
              /\ facts' = [stored |-> IF storageFails THEN facts.stored ELSE Trimmed(<<entry>> \o facts.stored),
                           nextId |-> facts.nextId + 1, now |-> facts.now + tick, calls |-> facts.calls + 1, failed |-> storageFails, id |-> entry.id]
              /\ result' = entry
    /\ pc' = "saveToHistory"

\* deleteHistoryEntry(id) for the id of the newest, the second or the oldest
\* stored entry, or for an id that is not stored.
DeleteHistoryEntry ==
    /\ facts.calls + 1 \in CallCounts
    /\ \E storageFails \in BOOLEAN :
          \E id \in {0} \cup {facts.stored[i].id : i \in {1, 2, Len(facts.stored)} \cap DOMAIN facts.stored} :
              facts' = [facts EXCEPT !.stored = IF storageFails THEN @ ELSE Filtered(@, id), !.calls = @ + 1, !.failed = storageFails, !.id = id]
    /\ result' = UNDEFINED
    /\ pc' = "deleteHistoryEntry"

\* clearHistory: removeItem; getHistory reads a missing item as [].
ClearHistory ==
    /\ facts.calls + 1 \in CallCounts
    /\ facts' = [facts EXCEPT !.stored = <<>>, !.calls = @ + 1, !.failed = FALSE, !.id = 0]
    /\ result' = UNDEFINED
    /\ pc' = "clearHistory"

NextHistory == SaveToHistory \/ DeleteHistoryEntry \/ ClearHistory

SpecHistory == InitHistory /\ [][NextHistory]_vars

\* The list without its i-th entry.
Without(history, i) == SubSeq(history, 1, i - 1) \o SubSeq(history, i + 1, Len(history))

\* C29: after any sequence of saveToHistory, deleteHistoryEntry and
\* clearHistory the stored history has at most 100 entries, newest first; a
\* successful save puts the new entry at index 0 in front of the entries
\* stored before, without the oldest of them when there were already 100; a
\* delete removes the entry with the given id and nothing else, the rest in
\* the order it had; a save whose storage access fails leaves the stored
\* history as it was and still returns the entry.
HistoryStore ==
    /\ [](/\ Len(facts.stored) <= 100
          /\ \A i, j \in DOMAIN facts.stored : i < j => facts.stored[i].timestamp >= facts.stored[j].timestamp)
    /\ [][/\ (pc' = "saveToHistory" /\ ~facts'.failed) =>
                /\ facts'.stored[1] = result'
                /\ Tail(facts'.stored) = (IF Len(facts.stored) = 100 THEN SubSeq(facts.stored, 1, 99) ELSE facts.stored)
          /\ (pc' = "saveToHistory" /\ facts'.failed) =>
                /\ facts'.stored = facts.stored
                /\ result' = Entry(facts.nextId, facts'.now)
          /\ (pc' = "deleteHistoryEntry" /\ ~facts'.failed) =>
                IF \E i \in DOMAIN facts.stored : facts.stored[i].id = facts'.id
                THEN \E i \in DOMAIN facts.stored : facts.stored[i].id = facts'.id /\ facts'.stored = Without(facts.stored, i)
                ELSE facts'.stored = facts.stored]_vars

\* C29 witness: the third successful save on a history of 99 entries has
\* returned: the history is full, the new entry is first and the two oldest
\* entries (ids 1 and 2) are gone.
HistoryStoreWitness ==
    /\ pc = "saveToHistory"
    /\ ~facts.failed
    /\ Len(facts.stored) = 100
    /\ facts.stored[1] = result
    /\ facts.stored[100].id = 3
    /\ facts.nextId = 103

(***************************************************************************)
(* getPageSpeedInsights: the retry loop                                    *)
(***************************************************************************)
maxRetries == 3

\* How one attempt ends: an OK response whose body is read, an OK response
\* whose body cannot be read (response.json() throws), status 429, another
\* non-OK status, or fetch throwing.
AttemptOutcomes == {"ok", "jsonThrows", "rateLimited", "notOk", "fetchThrows"}

\* The performance scores an OK body carries.
PerformanceScores == {0, 80}

\* The loop going on to the next attempt after every failure.
ContinuesAfterAnyFailure(outcome) == outcome # "ok"

\* The outcomes after which the loop goes on to the next attempt: `continue`
\* after a 429, the catch block after a throw anywhere in the try.
ContinuesAfter(outcome) == outcome \in {"rateLimited", "fetchThrows", "jsonThrows"}

\* facts: the loop variable, the requests issued and how the attempts ended.
InitPageSpeed ==
    /\ facts = [attempt |-> 1, requests |-> 0, outcomes |-> <<>>]
    /\ result = NoResult
    /\ pc = "loop"

\* for (...; attempt <= maxRetries; ...) { try { await fetch(apiUrl)
IssueRequest ==
    /\ pc = "loop"
    /\ facts.attempt <= maxRetries
    /\ facts' = [facts EXCEPT !.requests = @ + 1]
    /\ pc' = "fetching"
    /\ UNCHANGED result

\* The awaited fetch settles and the rest of the loop body runs up to its
\* return or to the timer it awaits.
AttemptEnds ==
    /\ pc = "fetching"
    /\ \E outcome \in AttemptOutcomes, performanceScore \in PerformanceScores :
          /\ outcome # "ok" => performanceScore = 0
          /\ facts' = [facts EXCEPT !.outcomes = Append(@, outcome)]
          /\ IF ContinuesAfter(outcome)
             THEN /\ pc' = IF outcome = "rateLimited" \/ facts.attempt < maxRetries THEN "waiting" ELSE "continue"
                  /\ UNCHANGED result
             ELSE /\ pc' = "returned"
                  /\ result' = IF outcome = "ok" THEN PageSpeed(performanceScore) ELSE NULL

\* The setTimeout awaited after a 429 or in the catch block fires.
TimerFires ==
    /\ pc = "waiting"
    /\ pc' = "continue"
    /\ UNCHANGED <<facts, result>>

\* attempt++
NextAttempt ==
    /\ pc = "continue"
    /\ facts' = [facts EXCEPT !.attempt = @ + 1]
    /\ pc' = "loop"
    /\ UNCHANGED result

\* The loop is left: return null.
RetriesExhausted ==
    /\ pc = "loop"
    /\ facts.attempt > maxRetries
    /\ result' = NULL
    /\ pc' = "returned"
    /\ UNCHANGED facts

NextPageSpeed == IssueRequest \/ AttemptEnds \/ TimerFires \/ NextAttempt \/ RetriesExhausted

\* Every fetch settles and every timer fires.
SpecPageSpeed == InitPageSpeed /\ [][NextPageSpeed]_vars /\ WF_vars(NextPageSpeed)

\* C30: getPageSpeedInsights always returns, never throws and issues at most
\* 3 requests; it returns a result at the first OK response (one whose body
\* is read; a throw while reading it is a thrown error), returns null without
\* a further request at a non-OK response other than 429, goes on to the next
\* attempt after a 429 or a thrown error, and returns null when all 3
\* attempts were rate-limited or threw.
RetryLoopReturns ==
    /\ <>(pc = "returned")
    /\ [](facts.requests <= 3 /\ result # Thrown)
    /\ [](pc = "returned" =>
            LET n == Len(facts.outcomes)
            IN  /\ n \in 1..3
                /\ facts.requests = n
                /\ \A i \in 1..(n - 1) : facts.outcomes[i] \in {"rateLimited", "fetchThrows", "jsonThrows"}
                /\ facts.outcomes[n] = "ok" <=> result # NULL
                /\ facts.outcomes[n] \in {"rateLimited", "fetchThrows", "jsonThrows"} => n = 3)

\* C30 witness: the function has returned a result from its third request,
\* after a 429 and a thrown fetch.
RetryLoopReturnsWitness ==
    /\ pc = "returned"
    /\ facts.outcomes = <<"rateLimited", "fetchThrows", "ok">>
    /\ facts.requests = 3
    /\ result = PageSpeed(80)

====
